---- MODULE Spec2Model ----
(***************************************************************************)
(* Track Manager of the benthic activity detector                          *)
(* (cv_scripts/benthic_activity_detection_v4.py, identical in v5):         *)
(* the frame loop of process_video, match_blobs_to_tracks, track creation  *)
(* and the final validation pass.                                          *)
(* validate_track (v4 and v5) and find_coupled_blobs / detect_blobs are     *)
(* also run on their own, on arguments drawn from bounded sets             *)
(* (SpecValidate, SpecDetect).                                             *)
(*                                                                         *)
(* Coordinates are floats in the code.  The model holds every coordinate   *)
(* as an integer number of 1/Scale pixels, so that sub-pixel centroids     *)
(* exist and int() truncation is a real conversion.  Distances are         *)
(* compared through their squares, which is exact for these values.        *)
(* Validation thresholds are held in tenths, detection thresholds in       *)
(* hundredths.  Displacement, average speed, circularity and confidence    *)
(* are IEEE doubles, computed and compared as the code does.               *)
(* Python's None is the empty tuple << >>.                                 *)
(***************************************************************************)
EXTENDS Integers, Sequences, FiniteSets, TLC

\* ------------------------------------------------------------------ bounds
MaxFrames == 4
MaxBlobs == 2
MaxSkipFrames == 1
MaxDetections == 4

\* ------------------------------------------------- representation of floats
Scale == 2

\* ------------------------------------------- TrackingParams / ValidationParams
max_distance == 75
\* TrackingParams.rest_zone_radius: the default, and a radius below max_distance.
RestZoneRadii == { 120, 40 }
min_track_length == 4
min_displacement_tenths == 80
max_speed_tenths == 300
min_speed_tenths == 1
coupling_boost_pct == 130

None == << >>

VARIABLES
    pc,                 \* "start" before the source is opened, "loop" while frames
                        \* are read, "done" after validation, "error" after a raise;
                        \* the name of the function under test in the function runs
    max_skip_frames,    \* TrackingParams.max_skip_frames of this run
    rest_zone_radius,   \* TrackingParams.rest_zone_radius of this run
    frame_idx,
    active_tracks,      \* sequence of Track records
    completed_tracks,   \* sequence of Track records
    next_track_id,
    total_detections,
    total_coupled_detections,
    blobs,              \* detect_blobs' list for the frame just processed
    unmatched_blobs,    \* second result of the last match_blobs_to_tracks call
    assigned,           \* the <<b_idx, t_idx>> the last matching round accepted, in order
    call                \* arguments and results of the function under test

vars == << pc, max_skip_frames, rest_zone_radius, frame_idx, active_tracks, completed_tracks,
           next_track_id, total_detections, total_coupled_detections,
           blobs, unmatched_blobs, assigned, call >>

\* -------------------------------------------------------------- arithmetic
\* The floats of the program are IEEE doubles: every np.sqrt, sum, product
\* and quotient is rounded to the nearest double, and the tests compare the
\* rounded numbers.
\* Natural numbers of any size: sequences of digits to the base LimbBase,
\* the least significant first, without a leading zero (0 is << >>).
LimbBits == 15

LimbBase == 32768

RECURSIVE big(_)
big(n) == IF n = 0 THEN << >> ELSE << n % LimbBase >> \o big(n \div LimbBase)

RECURSIVE big_norm(_)
big_norm(a) ==
    IF a = << >> THEN a
    ELSE IF a[Len(a)] # 0 THEN a
    ELSE big_norm(SubSeq(a, 1, Len(a) - 1))

\* a * c + d, for c and d below LimbBase.
RECURSIVE big_mul_add(_, _, _)
big_mul_add(a, c, d) ==
    IF a = << >> \/ c = 0 THEN big(d)
    ELSE LET v == a[1] * c + d
         IN  << v % LimbBase >> \o big_mul_add(Tail(a), c, v \div LimbBase)

\* a + b + carry.
RECURSIVE big_add(_, _, _)
big_add(a, b, carry) ==
    IF a = << >> /\ b = << >> THEN big(carry)
    ELSE IF b = << >> /\ carry = 0 THEN a
    ELSE IF a = << >> /\ carry = 0 THEN b
    ELSE LET x == IF a = << >> THEN 0 ELSE a[1]
             y == IF b = << >> THEN 0 ELSE b[1]
             v == x + y + carry
         IN  << v % LimbBase >>
                 \o big_add(IF a = << >> THEN a ELSE Tail(a),
                            IF b = << >> THEN b ELSE Tail(b), v \div LimbBase)

\* The sign of a - b for two numbers of the same number of digits, decided
\* from digit i downwards.
RECURSIVE big_cmp_from(_, _, _)
big_cmp_from(a, b, i) ==
    IF i = 0 THEN 0
    ELSE IF a[i] > b[i] THEN 1
    ELSE IF a[i] < b[i] THEN -1
    ELSE big_cmp_from(a, b, i - 1)

\* The sign of a - b: -1, 0 or 1.
big_cmp(a, b) ==
    IF Len(a) > Len(b) THEN 1
    ELSE IF Len(a) < Len(b) THEN -1
    ELSE big_cmp_from(a, b, Len(a))

\* The digits of a - b - borrow, for a >= b + borrow; leading zeros stay.
RECURSIVE big_sub_digits(_, _, _)
big_sub_digits(a, b, borrow) ==
    IF a = << >> THEN << >>
    ELSE LET v == a[1] - (IF b = << >> THEN 0 ELSE b[1]) - borrow
         IN  << (v + LimbBase) % LimbBase >>
                 \o big_sub_digits(Tail(a), IF b = << >> THEN b ELSE Tail(b),
                                   IF v < 0 THEN 1 ELSE 0)

\* a - b, for a >= b.
big_sub(a, b) == big_norm(big_sub_digits(a, b, 0))

\* a * LimbBase^k.
big_shl_limbs(a, k) == IF a = << >> THEN a ELSE [ i \in 1..k |-> 0 ] \o a

\* a * b.
RECURSIVE big_mul(_, _)
big_mul(a, b) ==
    IF b = << >> THEN << >>
    ELSE big_add(big_mul_add(a, b[1], 0), big_shl_limbs(big_mul(a, Tail(b)), 1), 0)

\* Quotient q and remainder r of a by d, for d in 1..LimbBase.
RECURSIVE big_divmod_small(_, _)
big_divmod_small(a, d) ==
    IF a = << >> THEN [ q |-> << >>, r |-> 0 ]
    ELSE LET hi == big_divmod_small(Tail(a), d)
             v  == hi.r * LimbBase + a[1]
         IN  [ q |-> IF hi.q = << >> /\ v < d THEN << >> ELSE << v \div d >> \o hi.q,
               r |-> v % d ]

\* a * 2^s.
big_shl(a, s) ==
    big_shl_limbs(big_mul_add(a, 2 ^ (s % LimbBits), 0), s \div LimbBits)

\* q = a \div 2^s, and sticky: whether a bit was shifted out.
big_shr(a, s) ==
    LET k == s \div LimbBits
    IN  IF k >= Len(a) THEN [ q |-> << >>, sticky |-> a # << >> ]
        ELSE LET dm == big_divmod_small(SubSeq(a, k + 1, Len(a)), 2 ^ (s % LimbBits))
             IN  [ q |-> dm.q,
                   sticky |-> dm.r # 0 \/ \E i \in 1..k : a[i] # 0 ]

RECURSIVE bit_length(_)
bit_length(n) == IF n = 0 THEN 0 ELSE 1 + bit_length(n \div 2)

big_bit_length(a) ==
    IF a = << >> THEN 0 ELSE LimbBits * (Len(a) - 1) + bit_length(a[Len(a)])

big_odd(a) == a # << >> /\ a[1] % 2 = 1

\* ------------------------------------------------------- float (IEEE double)
\* A float of the program is [m, e]: the number m * 2^e, with m odd and
\* below 2^53, or 0.0 with m = 0 and e = 0.  No float of the model is
\* negative, and the exponents stay far from the ends of the range of a
\* double: there is no overflow to inf and no subnormal number.
dbl_zero == [ m |-> << >>, e |-> 0 ]

\* m * 2^e for a number that needs no rounding, m made odd.
RECURSIVE dbl_norm(_, _)
dbl_norm(m, e) ==
    IF m = << >> THEN dbl_zero
    ELSE IF m[1] = 0 THEN dbl_norm(Tail(m), e + LimbBits)
    ELSE IF m[1] % 2 = 0 THEN dbl_norm(big_divmod_small(m, 2).q, e + 1)
    ELSE [ m |-> m, e |-> e ]

\* The double nearest to x, ties to the even mantissa, for n * 2^e <= x <
\* (n + 1) * 2^e, x being above n * 2^e exactly when sticky.  With sticky, n
\* has 55 bits or more.
dbl_round(n, e, sticky) ==
    LET len == big_bit_length(n)
    IN  IF len <= 53 THEN dbl_norm(n, e)
        ELSE LET sh    == big_shr(n, len - 54)
                 guard == big_odd(sh.q)
                 q     == big_divmod_small(sh.q, 2).q
                 up    == guard /\ (sh.sticky \/ sticky \/ big_odd(q))
             IN  dbl_norm(IF up THEN big_add(q, << >>, 1) ELSE q, e + len - 53)

\* float(n) of a whole number n >= 0.
dbl_of_int(n) == dbl_norm(big(n), 0)

\* The mantissas of two floats brought to the lower of the two exponents.
dbl_aligned(a, b) ==
    LET e == IF a.e <= b.e THEN a.e ELSE b.e
    IN  [ a |-> big_shl(a.m, a.e - e), b |-> big_shl(b.m, b.e - e), e |-> e ]

\* The sign of a - b: -1, 0 or 1.  Of two floats above 0 the one with the
\* higher leading bit is the greater.
dbl_cmp(a, b) ==
    LET ha == big_bit_length(a.m) + a.e
        hb == big_bit_length(b.m) + b.e
    IN  IF a.m = << >> \/ b.m = << >>
        THEN (IF a.m # << >> THEN 1 ELSE IF b.m # << >> THEN -1 ELSE 0)
        ELSE IF ha # hb THEN (IF ha > hb THEN 1 ELSE -1)
        ELSE LET al == dbl_aligned(a, b) IN big_cmp(al.a, al.b)

\* a < b and a > b.
dbl_lt(a, b) == dbl_cmp(a, b) < 0

dbl_gt(a, b) == dbl_cmp(a, b) > 0

\* a + b.
dbl_add(a, b) ==
    LET al == dbl_aligned(a, b)
    IN  dbl_round(big_add(al.a, al.b, 0), al.e, FALSE)

\* a * b.
dbl_mul(a, b) == dbl_round(big_mul(a.m, b.m), a.e + b.e, FALSE)

\* a / (k1 * k2) for whole numbers k1, k2 in 1..LimbBase: the quotient to 55
\* bits or more, and whether anything is left over.
dbl_div_ints(a, k1, k2) ==
    IF a.m = << >> THEN a
    ELSE LET need == 55 + bit_length(k1) + bit_length(k2) - big_bit_length(a.m)
             s    == IF need > 0 THEN need ELSE 0
             d1   == big_divmod_small(big_shl(a.m, s), k1)
             d2   == big_divmod_small(d1.q, k2)
         IN  dbl_round(d2.q, a.e - s, d1.r # 0 \/ d2.r # 0)

\* The float a decimal literal of the value p / q is, and p / q of two
\* floats that are whole numbers; p >= 0, q in 1..LimbBase.
dbl_of_ratio(p, q) == dbl_div_ints(dbl_of_int(p), q, 1)

\* The integer square root, rounded down, of n below 2^30.
RECURSIVE SqrtSearch(_, _, _)
SqrtSearch(n, lo, hi) ==
    IF lo >= hi THEN lo
    ELSE LET mid == (lo + hi + 1) \div 2
         IN  IF mid <= n \div mid THEN SqrtSearch(n, mid, hi)
                                  ELSE SqrtSearch(n, lo, mid - 1)

ISqrt(n) == SqrtSearch(n, 0, n)

\* k more binary places of a square root: from root = floor(sqrt(n * 4^j))
\* and rem = n * 4^j - root^2 to the same for j + k.
RECURSIVE sqrt_places(_, _, _)
sqrt_places(root, rem, k) ==
    IF k = 0 THEN root
    ELSE LET rem4 == big_mul_add(rem, 4, 0)
             step == big_mul_add(root, 4, 1)
         IN  IF big_cmp(rem4, step) >= 0
             THEN sqrt_places(big_mul_add(root, 2, 1), big_sub(rem4, step), k - 1)
             ELSE sqrt_places(big_mul_add(root, 2, 0), rem4, k - 1)

\* np.sqrt(n) of a whole number n: the double nearest to the root.  The root
\* of a number that is no square is no float, so it is rounded from 55 bits
\* and a sticky bit.
dbl_sqrt(n) ==
    LET s == ISqrt(n)
    IN  IF s * s = n THEN dbl_of_int(s)
        ELSE LET k == 55 - bit_length(s)
             IN  dbl_round(sqrt_places(big(s), big(n - s * s), k), -k, TRUE)

\* a * 2^k, which needs no rounding.
dbl_scale(a, k) == IF a.m = << >> THEN a ELSE [ a EXCEPT !.e = @ + k ]

\* ------------------------------------------------------------ frame inputs
\* The centroids a detection can have, in 1/Scale px:
\* (100.5,100) (140.5,130) (180.5,100) (364.5,100).
\* Pairwise distances in px: 50, 80, 264, 50, 226, 184.
Centroids ==
    << <<201, 200>>, <<281, 260>>, <<361, 200>>, <<729, 200>> >>

\* The 1e-6 added to the denominator of the aspect ratio, as 1 / Epsilon.
Epsilon == 1000000

Max2(a, b) == IF a >= b THEN a ELSE b

Min2(a, b) == IF a <= b THEN a ELSE b

\* aspect_ratio = max(w, h) / (min(w, h) + 1e-6), as numerator and
\* denominator multiplied by Epsilon; the denominator is never 0.
aspect_ratio_num(region) == Max2(region.w, region.h) * Epsilon

aspect_ratio_den(region) == Min2(region.w, region.h) * Epsilon + 1

\* The aspect_ratio a Blob carries, in whole tenths (rounded down).
aspect_ratio(region) ==
    (10 * aspect_ratio_num(region)) \div aspect_ratio_den(region)

BlobKinds == << "dark", "coupled", "dark", "standard" >>

\* The float of a threshold or factor that the model holds in hundredths.
hundredths(t) == dbl_of_ratio(t, 100)

\* DetectionParams.coupling_boost, the float 1.3.
coupling_boost == hundredths(coupling_boost_pct)

\* A Blob of detect_blobs' list: an 11 x 11 px box around the centroid,
\* circularity 1.0, which is its confidence before the coupling boost.
Blob(k, f) ==
    [ frame_idx    |-> f,
      bbox         |-> << (Centroids[k][1] \div Scale) - 5,
                          (Centroids[k][2] \div Scale) - 5, 11, 11 >>,
      centroid     |-> Centroids[k],
      area         |-> 100 + k,
      circularity  |-> dbl_of_int(1),
      aspect_ratio |-> aspect_ratio([ w |-> 11, h |-> 11 ]),
      confidence   |-> IF BlobKinds[k] = "coupled"
                       THEN dbl_mul(dbl_of_int(1), coupling_boost)
                       ELSE dbl_of_int(1),
      blob_type    |-> BlobKinds[k],
      coupled_with |-> IF BlobKinds[k] = "coupled" THEN <<0>> ELSE None ]

\* Lists of at most MaxBlobs detections with pairwise different centroids.
BlobIndexLists ==
    UNION { { s \in [1..n -> DOMAIN Centroids] :
                \A i, j \in 1..n : i # j => s[i] # s[j] } : n \in 0..MaxBlobs }

FrameBlobs(s, f) == [ i \in DOMAIN s |-> Blob(s[i], f) ]

\* ------------------------------------------------------------------- Track
\* A track created without counting its first detection.
new_track_uncounted(id, blob, f) ==
    [ track_id               |-> id,
      frames                 |-> << f >>,
      bboxes                 |-> << blob.bbox >>,
      centroids              |-> << blob.centroid >>,
      areas                  |-> << blob.area >>,
      confidences            |-> << blob.confidence >>,
      is_valid               |-> FALSE,
      last_seen_frame        |-> f,
      last_known_position    |-> None,
      is_resting             |-> FALSE,
      rest_roi               |-> None,
      frames_since_detection |-> 0,
      position_history       |-> << blob.centroid >>,
      coupled_detections     |-> IF blob.blob_type = "coupled" THEN 1 ELSE 0,
      total_detections       |-> 0 ]

\* Track(...) of process_video, with the two statements that follow it.
new_track(id, blob, f) ==
    [ track_id               |-> id,
      frames                 |-> << f >>,
      bboxes                 |-> << blob.bbox >>,
      centroids              |-> << blob.centroid >>,
      areas                  |-> << blob.area >>,
      confidences            |-> << blob.confidence >>,
      is_valid               |-> FALSE,
      last_seen_frame        |-> f,
      last_known_position    |-> None,
      is_resting             |-> FALSE,
      rest_roi               |-> None,
      frames_since_detection |-> 0,
      position_history       |-> << blob.centroid >>,
      coupled_detections     |-> IF blob.blob_type = "coupled" THEN 1 ELSE 0,
      total_detections       |-> 1 ]

length(track) == Len(track.frames)

\* Squared Euclidean distance of two points, in (1/Scale px)^2.
Dist2(p, q) == (p[1] - q[1]) * (p[1] - q[1]) + (p[2] - q[2]) * (p[2] - q[2])

\* np.sqrt(dx**2 + dy**2) of the step between two centroids.  The
\* coordinates are multiples of 1/Scale px, so dx, dy and dx**2 + dy**2 are
\* floats without rounding, and the root of Dist2 / Scale^2 is the root of
\* Dist2 halved.
step_length(p, q) == dbl_scale(dbl_sqrt(Dist2(p, q)), -1)

\* for i in range(1, len(self.centroids)): total += np.sqrt(...), from the
\* centroid i (1-based: 2) on; every addition is rounded.
RECURSIVE SumDist(_, _, _)
SumDist(cs, i, total) ==
    IF i > Len(cs) THEN total
    ELSE SumDist(cs, i + 1, dbl_add(total, step_length(cs[i], cs[i - 1])))

\* Track.displacement, a float in px.
displacement(track) ==
    IF Len(track.centroids) < 2 THEN dbl_zero
    ELSE SumDist(track.centroids, 2, dbl_zero)

\* Track.total_duration with the + 1 left out.
total_duration_exclusive(track) ==
    IF Len(track.frames) = 0 THEN 0
    ELSE track.frames[Len(track.frames)] - track.frames[1]

\* Track.total_duration: frames from the first to the last detection.
total_duration(track) ==
    IF Len(track.frames) = 0 THEN 0
    ELSE track.frames[Len(track.frames)] - track.frames[1] + 1

\* sum(1 for i in range(1, len(t.frames)) if t.frames[i] - t.frames[i-1] > 1),
\* from index i (1-based: 2) on.
RECURSIVE count_gaps(_, _)
count_gaps(fs, i) ==
    IF i > Len(fs) THEN 0
    ELSE (IF fs[i] - fs[i - 1] > 1 THEN 1 ELSE 0) + count_gaps(fs, i + 1)

\* The 'rest_periods' entry of a track in the results.
rest_periods(track) == count_gaps(track.frames, 2)

\* ValidationParams(): the defaults of v4.  min_displacement, max_speed and
\* min_speed are in tenths of a pixel.
ValidationDefaults ==
    [ min_track_length |-> min_track_length,
      min_displacement |-> min_displacement_tenths,
      max_speed        |-> max_speed_tenths,
      min_speed        |-> min_speed_tenths ]

\* Track.avg_speed: displacement / (n - 1), and 0.0 below two centroids.
avg_speed(track) ==
    IF Len(track.centroids) < 2 THEN dbl_zero
    ELSE dbl_div_ints(displacement(track), Len(track.centroids) - 1, 1)

\* The float of a threshold of ValidationParams that the model holds in
\* tenths of a pixel.
tenths(t) == dbl_of_ratio(t, 10)

\* validate_track with the displacement test made strict.
validate_track_strict(track, params) ==
    IF length(track) < params.min_track_length THEN FALSE
    ELSE IF ~dbl_gt(displacement(track), tenths(params.min_displacement)) THEN FALSE
    ELSE IF dbl_lt(avg_speed(track), tenths(params.min_speed)) THEN FALSE
    ELSE IF dbl_gt(avg_speed(track), tenths(params.max_speed)) THEN FALSE
    ELSE TRUE

\* validate_track of v4: four early returns, then True.
validate_track(track, params) ==
    IF length(track) < params.min_track_length THEN FALSE
    ELSE IF dbl_lt(displacement(track), tenths(params.min_displacement)) THEN FALSE
    ELSE IF dbl_lt(avg_speed(track), tenths(params.min_speed)) THEN FALSE
    ELSE IF dbl_gt(avg_speed(track), tenths(params.max_speed)) THEN FALSE
    ELSE TRUE

\* validate_track of v5: the two speed tests are one condition.
validate_track_v5(track, params) ==
    IF length(track) < params.min_track_length THEN FALSE
    ELSE IF dbl_lt(displacement(track), tenths(params.min_displacement)) THEN FALSE
    ELSE IF \/ dbl_lt(avg_speed(track), tenths(params.min_speed))
            \/ dbl_gt(avg_speed(track), tenths(params.max_speed)) THEN FALSE
    ELSE TRUE

\* ---------------------------------------------------- match_blobs_to_tracks
\* int() of a float held in 1/Scale units: truncation toward zero.
IntTrunc(n) == IF n >= 0 THEN n \div Scale ELSE -((-n) \div Scale)

is_blob_in_rest_zone(blob, track) ==
    IF ~track.is_resting \/ track.last_known_position = None
    THEN FALSE
    ELSE Dist2(blob.centroid, track.last_known_position)
             <= (Scale * rest_zone_radius) * (Scale * rest_zone_radius)

distances_ignores_resting(blob, track) ==
    LET d2 == Dist2(blob.centroid, track.centroids[Len(track.centroids)])
    IN  IF Dist2(blob.centroid, track.centroids[Len(track.centroids)])
               <= (Scale * rest_zone_radius) * (Scale * rest_zone_radius)
        THEN d2
        ELSE 4 * d2

\* distances[b_idx, t_idx] after the rest-zone adjustment, as the square of
\* twice the distance in 1/Scale px: 4 d^2 for the raw distance d, d^2 for
\* the halved one.  The blob is measured against track.centroids[-1].
distances(blob, track) ==
    LET d2 == Dist2(blob.centroid, track.centroids[Len(track.centroids)])
    IN  IF track.is_resting /\ is_blob_in_rest_zone(blob, track)
        THEN d2
        ELSE 4 * d2

\* A candidate test with half the matching radius.
within_max_distance_half(blob, track) ==
    distances(blob, track)
        <= (Scale * max_distance) * (Scale * max_distance)

\* distances[b_idx, t_idx] <= params.max_distance
within_max_distance(blob, track) ==
    distances(blob, track)
        <= (2 * Scale * max_distance) * (2 * Scale * max_distance)

\* The candidate list "pairs" before sorting: blob-major, track-minor.
\* Indices are 1-based here, 0-based in the code.
candidate_pairs(bl, tr) ==
    LET all == [ n \in 1..(Len(bl) * Len(tr)) |->
                   << ((n - 1) \div Len(tr)) + 1, ((n - 1) % Len(tr)) + 1 >> ]
        ok(p) == within_max_distance(bl[p[1]], tr[p[2]])
        kept == SelectSeq(all, ok)
    IN  [ i \in DOMAIN kept |->
            << kept[i][1], kept[i][2], distances(bl[kept[i][1]], tr[kept[i][2]]) >> ]

\* list.sort(key=lambda x: x[2]): stable, ascending.
InsertSorted(s, p) ==
    LET k == Cardinality({ i \in DOMAIN s : s[i][3] <= p[3] })
    IN  SubSeq(s, 1, k) \o << p >> \o SubSeq(s, k + 1, Len(s))

RECURSIVE sort_pairs(_)
sort_pairs(s) ==
    IF s = << >> THEN << >>
    ELSE InsertSorted(sort_pairs(SubSeq(s, 1, Len(s) - 1)), s[Len(s)])

both_free_ignores_blob(p, acc) ==
    \A j \in DOMAIN acc : acc[j][2] # p[2]

both_free_ignores_track(p, acc) ==
    \A j \in DOMAIN acc : acc[j][1] # p[1]

\* The guard of the greedy loop: b_idx not in matched_blobs and t_idx not
\* in matched_tracks, over the pairs accepted so far.
both_free(p, acc) ==
    /\ \A j \in DOMAIN acc : acc[j][1] # p[1]
    /\ \A j \in DOMAIN acc : acc[j][2] # p[2]

\* The greedy loop over the sorted pairs; the result is the sequence of
\* accepted <<b_idx, t_idx>>, in the order of acceptance.
RECURSIVE greedy_assign(_, _, _)
greedy_assign(sorted, i, acc) ==
    IF i > Len(sorted) THEN acc
    ELSE greedy_assign(sorted, i + 1,
             IF both_free(sorted[i], acc)
             THEN Append(acc, << sorted[i][1], sorted[i][2] >>)
             ELSE acc)

\* The five parallel appends of an accepted pair.
append_detection_no_conf(track, blob, f) ==
    [ track EXCEPT
        !.frames      = Append(@, f),
        !.bboxes      = Append(@, blob.bbox),
        !.centroids   = Append(@, blob.centroid),
        !.areas       = Append(@, blob.area) ]

append_detection(track, blob, f) ==
    [ track EXCEPT
        !.frames      = Append(@, f),
        !.bboxes      = Append(@, blob.bbox),
        !.centroids   = Append(@, blob.centroid),
        !.areas       = Append(@, blob.area),
        !.confidences = Append(@, blob.confidence) ]

\* The reset of the rest state of an accepted pair.
clear_resting_keeps_flag(track) ==
    [ track EXCEPT !.frames_since_detection = 0 ]

clear_resting_keeps_counter(track) ==
    [ track EXCEPT !.is_resting = FALSE, !.rest_roi = None ]

clear_resting(track) ==
    [ track EXCEPT
        !.frames_since_detection = 0,
        !.is_resting             = FALSE,
        !.rest_roi               = None ]

\* A match that records the detection without extending the trail.
apply_match_no_trail(track, blob, f) ==
    [ clear_resting(append_detection(track, blob, f)) EXCEPT
        !.last_seen_frame     = f,
        !.last_known_position = blob.centroid,
        !.total_detections    = @ + 1,
        !.coupled_detections  = IF blob.blob_type = "coupled" THEN @ + 1 ELSE @ ]

\* The body of the greedy loop for an accepted pair.
apply_match(track, blob, f) ==
    [ clear_resting(append_detection(track, blob, f)) EXCEPT
        !.last_seen_frame     = f,
        !.last_known_position = blob.centroid,
        !.position_history    = Append(@, blob.centroid),
        !.total_detections    = @ + 1,
        !.coupled_detections  = IF blob.blob_type = "coupled" THEN @ + 1 ELSE @ ]

\* A track that starts resting without a rest region.
rest_roi_of_unset(pos) == None

\* rest_roi of a track that starts resting.
rest_roi_of(pos) ==
    << IntTrunc(pos[1] - Scale * rest_zone_radius),
       IntTrunc(pos[2] - Scale * rest_zone_radius),
       2 * rest_zone_radius,
       2 * rest_zone_radius >>

within_skip_budget_strict(track, msf) == track.frames_since_detection < msf

\* track.frames_since_detection <= params.max_skip_frames
within_skip_budget(track, msf) == track.frames_since_detection <= msf

\* An update of an unmatched track that also forgets its resting position.
update_unmatched_forgets_position(track, msf) ==
    LET t1 == [ track EXCEPT !.frames_since_detection = @ + 1 ]
    IN  IF within_skip_budget(t1, msf)
           /\ ~t1.is_resting /\ t1.last_known_position # None
        THEN [ t1 EXCEPT !.is_resting = TRUE,
                         !.rest_roi   = rest_roi_of(t1.last_known_position),
                         !.last_known_position = None ]
        ELSE t1

\* The update of a track that received no blob in the frame.
update_unmatched(track, msf) ==
    LET t1 == [ track EXCEPT !.frames_since_detection = @ + 1 ]
    IN  IF within_skip_budget(t1, msf)
           /\ ~t1.is_resting /\ t1.last_known_position # None
        THEN [ t1 EXCEPT !.is_resting = TRUE,
                         !.rest_roi   = rest_roi_of(t1.last_known_position) ]
        ELSE t1

\* range(n), 1-based.
Indices(n) == [ i \in 1..n |-> i ]

\* The writes of the greedy loop, one accepted pair after the other.
RECURSIVE apply_matches(_, _, _, _, _)
apply_matches(tr, bl, acc, i, f) ==
    IF i > Len(acc) THEN tr
    ELSE apply_matches(
             [ tr EXCEPT ![acc[i][2]] = apply_match(@, bl[acc[i][1]], f) ],
             bl, acc, i + 1, f)

\* matched_tracks is a Python set of ints, listed by "for t_idx in
\* matched_tracks" in the order of its hash table: a table of 8 slots (-1 for
\* an unused one) that grows when it is three fifths full, a key n (its own
\* hash) placed at slot n mod size or, when that is taken, at the next free
\* slot of the probe sequence.
\* The slot for a key whose probe sequence is at slot i.
RECURSIVE set_find_slot(_, _, _)
set_find_slot(table, i, perturb) ==
    LET mask == Len(table) - 1
        probes == IF i + 9 <= mask THEN 9 ELSE 0
        unused == { j \in i..(i + probes) : table[j + 1] = -1 }
    IN  IF unused # { }
        THEN CHOOSE j \in unused : \A k \in unused : j <= k
        ELSE set_find_slot(table, (i * 5 + 1 + (perturb \div 32)) % (mask + 1),
                           perturb \div 32)

\* A key put into a table that has room for it.
set_insert_clean(table, key) ==
    [ table EXCEPT ![set_find_slot(table, key % Len(table), key) + 1] = key ]

RECURSIVE set_insert_all(_, _, _)
set_insert_all(table, keys, i) ==
    IF i > Len(keys) THEN table
    ELSE set_insert_all(set_insert_clean(table, keys[i]), keys, i + 1)

\* The size of the table after a resize: the first of 8, 16, 32, ... above
\* minused.
RECURSIVE set_new_size(_, _)
set_new_size(newsize, minused) ==
    IF newsize > minused THEN newsize ELSE set_new_size(2 * newsize, minused)

\* The keys of a table, in the order of iteration.
set_keys(table) == SelectSeq(table, LAMBDA k : k # -1)

\* A new table of the size for minused, the keys put in again in the order
\* of iteration.
set_table_resize(table, minused) ==
    set_insert_all([ j \in 1..set_new_size(8, minused) |-> -1 ], set_keys(table), 1)

\* set.add(key) for a key that is not in the set.  No key is ever taken
\* out of matched_tracks, so fill and used are both the number of keys.
set_add_entry(table, key) ==
    LET t1 == set_insert_clean(table, key)
        used == Len(set_keys(t1))
    IN  IF used * 5 < (Len(table) - 1) * 3
        THEN t1
        ELSE set_table_resize(t1, IF used > 50000 THEN used * 2 ELSE used * 4)

\* The set after the adds of the accepted pairs, in the order of acceptance,
\* from set().
RECURSIVE set_of_matched(_, _, _)
set_of_matched(table, acc, i) ==
    IF i > Len(acc) THEN table
    ELSE set_of_matched(set_add_entry(table, acc[i][2] - 1), acc, i + 1)

\* for t_idx in matched_tracks, as 1-based indices.
matched_in_set_order(acc) ==
    LET keys == set_keys(set_of_matched([ j \in 1..8 |-> -1 ], acc, 1))
    IN  [ i \in DOMAIN keys |-> keys[i] + 1 ]

\* match_blobs_to_tracks: [tracks, unmatched, assigned].
match_blobs_to_tracks(bl, tr, f, msf) ==
    IF Len(tr) = 0
    THEN [ tracks |-> << >>, unmatched |-> bl, assigned |-> << >> ]
    ELSE IF Len(bl) = 0
    THEN LET upd == [ t \in DOMAIN tr |-> update_unmatched(tr[t], msf) ]
             keep == SelectSeq(Indices(Len(tr)), LAMBDA t : within_skip_budget(upd[t], msf))
         IN  [ tracks    |-> [ i \in DOMAIN keep |-> upd[keep[i]] ],
               unmatched |-> << >>,
               assigned  |-> << >> ]
    ELSE LET acc == greedy_assign(sort_pairs(candidate_pairs(bl, tr)), 1, << >>)
             matched_tracks == { acc[j][2] : j \in DOMAIN acc }
             matched_blobs == { acc[j][1] : j \in DOMAIN acc }
             hitd == apply_matches(tr, bl, acc, 1, f)
             upd == [ t \in DOMAIN tr |->
                        IF t \in matched_tracks
                        THEN hitd[t]
                        ELSE update_unmatched(tr[t], msf) ]
             keep == SelectSeq(Indices(Len(tr)), LAMBDA t :
                         t \notin matched_tracks /\ within_skip_budget(upd[t], msf))
             hit == matched_in_set_order(acc)
             free == SelectSeq(Indices(Len(bl)), LAMBDA b : b \notin matched_blobs)
         IN  [ tracks    |-> [ i \in DOMAIN keep |-> upd[keep[i]] ]
                               \o [ i \in DOMAIN hit |-> upd[hit[i]] ],
               unmatched |-> [ i \in DOMAIN free |-> bl[free[i]] ],
               assigned  |-> acc ]

\* ------------------------------------------------------------ process_video
NoCall == << >>

Init ==
    /\ pc = "start"
    /\ call = NoCall
    /\ max_skip_frames \in 0..MaxSkipFrames
    /\ rest_zone_radius \in RestZoneRadii
    /\ frame_idx = 0
    /\ active_tracks = << >>
    /\ completed_tracks = << >>
    /\ next_track_id = 1
    /\ total_detections = 0
    /\ total_coupled_detections = 0
    /\ blobs = << >>
    /\ unmatched_blobs = << >>
    /\ assigned = << >>

\* Everything of vars but pc.
run_state == << max_skip_frames, rest_zone_radius, frame_idx, active_tracks,
               completed_tracks, next_track_id, total_detections,
               total_coupled_detections, blobs, unmatched_blobs, assigned, call >>

\* What cap.get(cv2.CAP_PROP_FPS) can report: 0.0 for a source without a
\* frame rate, a positive rate otherwise.
FpsValues == { 0, 2 }

\* cv2.VideoCapture opened the source: fps is read and the loop state is
\* set up.
OpenVideo ==
    /\ pc = "start"
    /\ pc' = "loop"
    /\ \E f \in FpsValues : call' = [ fps |-> f ]
    /\ UNCHANGED << max_skip_frames, rest_zone_radius, frame_idx, active_tracks,
                    completed_tracks, next_track_id, total_detections,
                    total_coupled_detections, blobs, unmatched_blobs, assigned >>

\* cap.isOpened() is false: raise ValueError.
OpenFails ==
    /\ pc = "start"
    /\ pc' = "error"
    /\ UNCHANGED run_state

\* The body of the frame loop up to the rendering of the frame, for the list
\* bl that detect_blobs returned: the counts, the matching round and the
\* creation of a track for every unmatched blob.
frame_body(bl) ==
    LET m == match_blobs_to_tracks(bl, active_tracks, frame_idx, max_skip_frames)
        fresh == [ i \in DOMAIN m.unmatched |->
                     new_track(next_track_id + i - 1, m.unmatched[i], frame_idx) ]
    IN  /\ total_detections + Len(bl) <= MaxDetections
        /\ blobs' = bl
        /\ total_detections' = total_detections + Len(bl)
        /\ total_coupled_detections' = total_coupled_detections
               + Cardinality({ i \in DOMAIN bl : bl[i].blob_type = "coupled" })
        /\ unmatched_blobs' = m.unmatched
        /\ assigned' = m.assigned
        /\ active_tracks' = m.tracks \o fresh
        /\ next_track_id' = next_track_id + Len(m.unmatched)

\* One iteration of the frame loop: a frame was read, detect_blobs returned
\* the list bl, and the timestamp frame_idx / fps of the frame was taken.
ProcessFrame ==
    /\ pc = "loop"
    /\ frame_idx < MaxFrames
    /\ call.fps > 0
    /\ \E s \in BlobIndexLists : frame_body(FrameBlobs(s, frame_idx))
    /\ frame_idx' = frame_idx + 1
    /\ UNCHANGED << pc, max_skip_frames, rest_zone_radius, completed_tracks, call >>

\* The same iteration for a source that reports fps 0: float(frame_idx / fps)
\* raises ZeroDivisionError after the matching round and the creation of the
\* tracks; process_video is left without validating or returning anything.
ProcessFrameRaises ==
    /\ pc = "loop"
    /\ frame_idx < MaxFrames
    /\ call.fps = 0
    /\ \E s \in BlobIndexLists : frame_body(FrameBlobs(s, frame_idx))
    /\ pc' = "error"
    /\ UNCHANGED << frame_idx, max_skip_frames, rest_zone_radius, completed_tracks, call >>

\* cap.read() returned no frame: the loop ends and the tracks still in
\* active_tracks are validated and appended to completed_tracks.
EndOfStream ==
    /\ pc = "loop"
    /\ pc' = "done"
    /\ completed_tracks' = completed_tracks \o
           [ i \in DOMAIN active_tracks |->
               [ active_tracks[i] EXCEPT !.is_valid = 
                   validate_track(active_tracks[i], ValidationDefaults) ] ]
    /\ active_tracks' = [ i \in DOMAIN active_tracks |->
               [ active_tracks[i] EXCEPT !.is_valid = 
                   validate_track(active_tracks[i], ValidationDefaults) ] ]
    /\ UNCHANGED << max_skip_frames, rest_zone_radius, frame_idx, next_track_id, total_detections,
                    total_coupled_detections, blobs, unmatched_blobs, assigned, call >>

Next == OpenVideo \/ OpenFails \/ ProcessFrame \/ ProcessFrameRaises \/ EndOfStream

Spec == Init /\ [][Next]_vars

\* ------------------------------------------------- validate_track on its own
MaxTrackLen == 3

\* ValidationParams handed to validate_track: the defaults of v4 and v5 are
\* among them, as are thresholds that test nothing (0), thresholds that a
\* 50 px step meets exactly (500 tenths), and 5379.0 px and 2689.5 px, the
\* floats that the displacement and the average speed of NearTiePath are.
ValidationParamSets ==
    [ min_track_length : { 0, 1, 2, min_track_length },
      min_displacement : { 0, min_displacement_tenths, 500, 53790 },
      max_speed        : { max_speed_tenths, 500, 53790 },
      min_speed        : { 0, min_speed_tenths, 500, 26895 } ]

\* The centroids a track handed to validate_track can hold, in 1/Scale px:
\* 1 (100.5,100)  2 (140.5,130)  3 (180.5,100)  4 (104.5,101)
\* 5 (107.5,103.5)  6 (20,2159)  7 (2709.5,2159.5)  8 (32.5,1900.5).
\* The steps between 1, 2 and 3 are whole numbers of pixels: 50 px (1-2 and
\* 2-3) and 80 px (1-3).
TrackCentroids ==
    << <<201, 200>>, <<281, 260>>, <<361, 200>>, <<209, 202>>, <<215, 207>>,
       <<40, 4318>>, <<5419, 4319>>, <<65, 3801>> >>

\* The path 6-7-8 has the steps sqrt(7233410.5) and sqrt(7233410) px: their
\* sum is below 5379 px by less than 1e-12 px, and the sum of the two
\* rounded roots, rounded, is the float 5379.0.
NearTiePath == << 6, 7, 8 >>

\* The path 1-4-5 has the steps sqrt(17) and sqrt(15.25) px, 8.028 px
\* together, just above the default min_displacement.
ShortPath == << 1, 4, 5 >>

\* Every list of up to MaxTrackLen of the centroids 1, 2 and 3, and every
\* stretch of the two paths.
CentroidIndexLists ==
    UNION { [1..n -> 1..3] : n \in 0..MaxTrackLen }
        \cup { SubSeq(p, i, j) : p \in { ShortPath, NearTiePath },
                                 i \in 1..3, j \in 1..3 }

\* A Track holding one uncoupled detection per frame 0, 1, ... at the listed
\* centroids.
track_of(s) ==
    [ track_id               |-> 1,
      frames                 |-> [ i \in DOMAIN s |-> i - 1 ],
      bboxes                 |-> [ i \in DOMAIN s |->
                                     << (TrackCentroids[s[i]][1] \div Scale) - 5,
                                        (TrackCentroids[s[i]][2] \div Scale) - 5,
                                        11, 11 >> ],
      centroids              |-> [ i \in DOMAIN s |-> TrackCentroids[s[i]] ],
      areas                  |-> [ i \in DOMAIN s |-> 100 + s[i] ],
      confidences            |-> [ i \in DOMAIN s |-> dbl_of_int(1) ],
      is_valid               |-> FALSE,
      last_seen_frame        |-> Len(s) - 1,
      last_known_position    |-> None,
      is_resting             |-> FALSE,
      rest_roi               |-> None,
      frames_since_detection |-> 0,
      position_history       |-> [ i \in DOMAIN s |-> TrackCentroids[s[i]] ],
      coupled_detections     |-> 0,
      total_detections       |-> Len(s) ]

\* The variables of process_video, at rest while a function runs on its own.
idle ==
    /\ max_skip_frames = 0
    /\ rest_zone_radius = 120
    /\ frame_idx = 0
    /\ active_tracks = << >>
    /\ completed_tracks = << >>
    /\ next_track_id = 1
    /\ total_detections = 0
    /\ total_coupled_detections = 0
    /\ blobs = << >>
    /\ unmatched_blobs = << >>
    /\ assigned = << >>

frame_state == << max_skip_frames, rest_zone_radius, frame_idx, active_tracks,
                 completed_tracks, next_track_id, total_detections,
                 total_coupled_detections, blobs, unmatched_blobs, assigned >>

InitValidate ==
    /\ pc = "validate_track"
    /\ idle
    /\ \E s \in CentroidIndexLists, p \in ValidationParamSets :
         call = [ track |-> track_of(s), params |-> p,
                  returned |-> FALSE, v4 |-> FALSE, v5 |-> FALSE ]

\* validate_track(track, params) of v4 and of v5 return.
ValidateTrack ==
    /\ pc = "validate_track"
    /\ ~call.returned
    /\ call' = [ call EXCEPT !.returned = TRUE,
                             !.v4 = validate_track(call.track, call.params),
                             !.v5 = validate_track_v5(call.track, call.params) ]
    /\ UNCHANGED << pc, frame_state >>

NextValidate == ValidateTrack

SpecValidate == InitValidate /\ [][NextValidate]_vars

\* ------------------------------------------ find_coupled_blobs, detect_blobs
coupling_distance == 100
duplicate_distance == 20

\* The centroids of the dark, bright and standard blobs a frame can hold,
\* in 1/Scale px.
\* dark:     (100,100) (130.5,100) (100,160)
\* bright:   (100,130) (140,100) (200,100)
\* standard: (100,100) (100,130) (120,100) (300,300) (310,300)
\* Dark-bright distances: 30, 40 and 100 px from the first dark blob,
\* 42.8, 9.5 and 69.5 px from the second, 30, 72.1 and 116.6 px from the third.
DarkCentroids == << <<200, 200>>, <<261, 200>>, <<200, 320>> >>

BrightCentroids == << <<200, 260>>, <<280, 200>>, <<400, 200>> >>

StandardCentroids ==
    << <<200, 200>>, <<200, 260>>, <<240, 200>>, <<600, 600>>, <<620, 600>> >>

\* np.pi, the double 0x1.921fb54442d18p+1 = 884279719003555 * 2^-48; the
\* digits of the mantissa to the base LimbBase, the lowest first.
Pi == [ m |-> << 1443, 21777, 4349, 25 >>, e |-> -48 ]

\* circularity = (4 * np.pi * area) / (perimeter ** 2) for a contour of
\* positive perimeter, 0.0 otherwise: 4 * np.pi needs no rounding, its
\* product with the area is rounded, perimeter ** 2 of a whole number needs
\* no rounding, and the quotient is rounded.
circularity(region) ==
    IF region.perimeter # None /\ region.perimeter[1] > 0
    THEN dbl_div_ints(dbl_mul(dbl_scale(Pi, 2), dbl_of_int(region.area)),
                      region.perimeter[1], region.perimeter[1])
    ELSE dbl_zero

\* The Blob that extract_blobs_from_binary builds for a region of an 11 x 11
\* box, area 100 + k and a contour of 40 px: its confidence is its
\* circularity (0.79 to 0.82), coupled_with is left None.
extracted_blob(kind, pts, k, f) ==
    [ frame_idx    |-> f,
      bbox         |-> << (pts[k][1] \div Scale) - 5,
                          (pts[k][2] \div Scale) - 5, 11, 11 >>,
      centroid     |-> pts[k],
      area         |-> 100 + k,
      circularity  |-> circularity([ area |-> 100 + k, perimeter |-> <<40>> ]),
      aspect_ratio |-> aspect_ratio([ w |-> 11, h |-> 11 ]),
      confidence   |-> circularity([ area |-> 100 + k, perimeter |-> <<40>> ]),
      blob_type    |-> kind,
      coupled_with |-> None ]

\* Lists of at most MaxBlobs different indices into a sequence of n points.
IndexLists(n) ==
    UNION { { s \in [1..m -> 1..n] :
                \A i, j \in 1..m : i # j => s[i] # s[j] } : m \in 0..MaxBlobs }

blobs_of(kind, pts, s, f) == [ i \in DOMAIN s |-> extracted_blob(kind, pts, s[i], f) ]

\* distances[i, j] <= params.coupling_distance, on the squares.
within_coupling_distance(dark_blob, bright_blob) ==
    Dist2(dark_blob.centroid, bright_blob.centroid)
        <= (Scale * coupling_distance) * (Scale * coupling_distance)

\* The list "pairs" before sorting: dark-major, bright-minor, with the
\* squared distance as the sort key.  Indices are 1-based here.
coupling_pairs(dark_blobs, bright_blobs) ==
    LET nb == Len(bright_blobs)
        all == [ n \in 1..(Len(dark_blobs) * nb) |->
                   << ((n - 1) \div nb) + 1, ((n - 1) % nb) + 1 >> ]
        ok(p) == within_coupling_distance(dark_blobs[p[1]], bright_blobs[p[2]])
        kept == SelectSeq(all, ok)
    IN  [ i \in DOMAIN kept |->
            << kept[i][1], kept[i][2],
               Dist2(dark_blobs[kept[i][1]].centroid,
                     bright_blobs[kept[i][2]].centroid) >> ]

\* The guard of the coupling loop with the bright half left out.
pair_free_ignores_bright(p, acc) ==
    \A j \in DOMAIN acc : acc[j][1] # p[1]

\* dark_idx not in matched_dark and bright_idx not in matched_bright.
pair_free(p, acc) ==
    /\ \A j \in DOMAIN acc : acc[j][1] # p[1]
    /\ \A j \in DOMAIN acc : acc[j][2] # p[2]

\* The greedy loop: coupled_pairs in the order of acceptance.
RECURSIVE greedy_couple(_, _, _)
greedy_couple(sorted, i, acc) ==
    IF i > Len(sorted) THEN acc
    ELSE greedy_couple(sorted, i + 1,
             IF pair_free(sorted[i], acc)
             THEN Append(acc, << sorted[i][1], sorted[i][2] >>)
             ELSE acc)

\* The coupled Blob without the confidence boost.
coupled_blob_unboosted(dark_blob, bright_idx) ==
    [ dark_blob EXCEPT !.blob_type = "coupled", !.coupled_with = << bright_idx >> ]

\* The coupled Blob of a pair; bright_idx is the 0-based index of the code.
coupled_blob(dark_blob, bright_idx) ==
    [ frame_idx    |-> dark_blob.frame_idx,
      bbox         |-> dark_blob.bbox,
      centroid     |-> dark_blob.centroid,
      area         |-> dark_blob.area,
      circularity  |-> dark_blob.circularity,
      aspect_ratio |-> dark_blob.aspect_ratio,
      confidence   |-> dbl_mul(dark_blob.confidence, coupling_boost),
      blob_type    |-> "coupled",
      coupled_with |-> << bright_idx >> ]

\* The pairs are taken in the order of the list, unsorted.
sorted_coupling_pairs_unsorted(dark_blobs, bright_blobs) ==
    coupling_pairs(dark_blobs, bright_blobs)

\* pairs.sort(key=lambda x: x[2])
sorted_coupling_pairs(dark_blobs, bright_blobs) ==
    sort_pairs(coupling_pairs(dark_blobs, bright_blobs))

find_coupled_blobs(dark_blobs, bright_blobs) ==
    IF Len(dark_blobs) = 0 \/ Len(bright_blobs) = 0
    THEN [ coupled_blobs    |-> << >>,
           uncoupled_dark   |-> dark_blobs,
           uncoupled_bright |-> bright_blobs ]
    ELSE LET coupled_pairs ==
                 greedy_couple(sorted_coupling_pairs(dark_blobs, bright_blobs), 1, << >>)
             matched_dark == { coupled_pairs[k][1] : k \in DOMAIN coupled_pairs }
             matched_bright == { coupled_pairs[k][2] : k \in DOMAIN coupled_pairs }
             free_dark == SelectSeq(Indices(Len(dark_blobs)),
                                    LAMBDA i : i \notin matched_dark)
             free_bright == SelectSeq(Indices(Len(bright_blobs)),
                                      LAMBDA j : j \notin matched_bright)
         IN  [ coupled_blobs    |-> [ k \in DOMAIN coupled_pairs |->
                                        coupled_blob(dark_blobs[coupled_pairs[k][1]],
                                                     coupled_pairs[k][2] - 1) ],
               uncoupled_dark   |-> [ k \in DOMAIN free_dark |-> dark_blobs[free_dark[k]] ],
               uncoupled_bright |-> [ k \in DOMAIN free_bright |->
                                        bright_blobs[free_bright[k]] ] ]

\* dist < 20 of the duplicate test, on the squares.
is_duplicate_of(std_blob, existing_blob) ==
    Dist2(std_blob.centroid, existing_blob.centroid)
        < (Scale * duplicate_distance) * (Scale * duplicate_distance)

\* all_blobs after coupled_blobs.copy() and the conditional extend, with
\* the uncoupled dark blobs left out.
combined_detections_coupled_only(coupled_blobs, uncoupled_dark, require_coupling) ==
    coupled_blobs

\* all_blobs after coupled_blobs.copy() and the conditional extend.
combined_detections(coupled_blobs, uncoupled_dark, require_coupling) ==
    IF ~require_coupling THEN coupled_blobs \o uncoupled_dark ELSE coupled_blobs

\* The loop over standard_blobs from the i-th on: a standard blob is
\* appended unless a blob already in all_blobs is closer than 20 px.
RECURSIVE add_standard_blobs(_, _, _)
add_standard_blobs(all_blobs, standard_blobs, i) ==
    IF i > Len(standard_blobs) THEN all_blobs
    ELSE add_standard_blobs(
             IF \E e \in DOMAIN all_blobs :
                    is_duplicate_of(standard_blobs[i], all_blobs[e])
             THEN all_blobs
             ELSE Append(all_blobs, standard_blobs[i]),
             standard_blobs, i + 1)

\* A frame's dark, bright and standard blobs, as detect_dark_blobs,
\* detect_bright_blobs and extract_blobs_from_binary return them.
InitDetect ==
    /\ pc = "find_coupled_blobs"
    /\ idle
    /\ \E d \in IndexLists(Len(DarkCentroids)),
          b \in IndexLists(Len(BrightCentroids)),
          s \in IndexLists(Len(StandardCentroids)),
          rc \in BOOLEAN :
         call = [ dark_blobs       |-> blobs_of("dark", DarkCentroids, d, 0),
                  bright_blobs     |-> blobs_of("bright", BrightCentroids, b, 0),
                  standard_blobs   |-> blobs_of("standard", StandardCentroids, s, 0),
                  require_coupling |-> rc,
                  coupled_blobs    |-> << >>,
                  uncoupled_dark   |-> << >>,
                  uncoupled_bright |-> << >>,
                  all_blobs        |-> << >> ]

\* find_coupled_blobs returns to detect_blobs.
FindCoupledBlobs ==
    /\ pc = "find_coupled_blobs"
    /\ pc' = "detect_blobs"
    /\ LET r == find_coupled_blobs(call.dark_blobs, call.bright_blobs)
       IN  call' = [ call EXCEPT !.coupled_blobs    = r.coupled_blobs,
                                 !.uncoupled_dark   = r.uncoupled_dark,
                                 !.uncoupled_bright = r.uncoupled_bright ]
    /\ UNCHANGED frame_state

\* The rest of detect_blobs: the detections are combined and returned.
CombineDetections ==
    /\ pc = "detect_blobs"
    /\ pc' = "returned"
    /\ call' = [ call EXCEPT !.all_blobs =
                   add_standard_blobs(
                       combined_detections(call.coupled_blobs, call.uncoupled_dark,
                                           call.require_coupling),
                       call.standard_blobs, 1) ]
    /\ UNCHANGED frame_state

NextDetect == FindCoupledBlobs \/ CombineDetections

SpecDetect == InitDetect /\ [][NextDetect]_vars

\* ------------------------------------------------ extract_blobs_from_binary
min_area == 75
max_area == 2000
min_circularity_pct == 30
max_aspect_ratio_tenths == 30

\* The connected regions cv2.connectedComponentsWithStats and
\* cv2.findContours can report: area, bounding box (left x, top y, width w,
\* height h, in px), centroid (1/Scale px)
\* and the perimeter of the first contour in px (None: no contour).
\*   1  a single pixel, whose contour is one point of arc length 0
\*   2  a 10 x 10 square              3  a 30 x 10 rectangle (aspect 3.0)
\*   4  a 31 x 10 rectangle           5  a 9 x 8 rectangle, area 72
\*   6  a 15 x 5 rectangle, area 75   7  a 50 x 40 rectangle, area 2000
\*   8  a 45 x 45 square, area 2025   9  a ragged region, circularity 0.196
\*  10  an empty region of zero width for which no contour is found
\*  11  a region of area 565 and perimeter 100, circularity 0.70999994
Regions ==
    << [ area |-> 1,    x |-> 100, y |-> 100, w |-> 1,  h |-> 1,
         centroid |-> <<200, 200>>, perimeter |-> <<0>> ],
       [ area |-> 100,  x |-> 100, y |-> 100, w |-> 10, h |-> 10,
         centroid |-> <<209, 209>>, perimeter |-> <<36>> ],
       [ area |-> 300,  x |-> 100, y |-> 100, w |-> 30, h |-> 10,
         centroid |-> <<229, 209>>, perimeter |-> <<76>> ],
       [ area |-> 310,  x |-> 100, y |-> 100, w |-> 31, h |-> 10,
         centroid |-> <<230, 209>>, perimeter |-> <<78>> ],
       [ area |-> 72,   x |-> 100, y |-> 100, w |-> 9,  h |-> 8,
         centroid |-> <<208, 207>>, perimeter |-> <<30>> ],
       [ area |-> 75,   x |-> 100, y |-> 100, w |-> 15, h |-> 5,
         centroid |-> <<214, 204>>, perimeter |-> <<36>> ],
       [ area |-> 2000, x |-> 100, y |-> 100, w |-> 50, h |-> 40,
         centroid |-> <<249, 239>>, perimeter |-> <<176>> ],
       [ area |-> 2025, x |-> 100, y |-> 100, w |-> 45, h |-> 45,
         centroid |-> <<244, 244>>, perimeter |-> <<176>> ],
       [ area |-> 100,  x |-> 98,  y |-> 101, w |-> 20, h |-> 20,
         centroid |-> <<219, 219>>, perimeter |-> <<80>> ],
       [ area |-> 0,    x |-> 100, y |-> 100, w |-> 0,  h |-> 5,
         centroid |-> <<200, 204>>, perimeter |-> None ],
       [ area |-> 565,  x |-> 100, y |-> 100, w |-> 28, h |-> 27,
         centroid |-> <<227, 226>>, perimeter |-> <<100>> ] >>

\* DetectionParams handed to extract_blobs_from_binary: the defaults of v4,
\* thresholds that test nothing (0) and a min_circularity of 0.71, which the
\* region 11 misses by 6e-8.  max_aspect_ratio is in tenths, min_circularity
\* in hundredths.
DetectionParamSets ==
    [ min_area         : { 0, 1, min_area },
      max_area         : { 300, max_area },
      max_aspect_ratio : { 20, max_aspect_ratio_tenths },
      min_circularity  : { 0, min_circularity_pct, 71 } ]

\* circularity < params.min_circularity
fails_circularity(region, params) ==
    dbl_lt(circularity(region), hundredths(params.min_circularity))

\* Only the lower bound of the area test.
fails_area_lower_only(region, params) ==
    region.area < params.min_area

\* area < params.min_area or area > params.max_area
fails_area(region, params) ==
    region.area < params.min_area \/ region.area > params.max_area

\* aspect_ratio > params.max_aspect_ratio
fails_aspect_ratio(region, params) ==
    10 * aspect_ratio_num(region) > params.max_aspect_ratio * aspect_ratio_den(region)

\* What one pass of the loop body does with a region: the first "continue"
\* it reaches, or "blob" when the Blob is appended.
region_outcome(region, params) ==
    IF fails_area(region, params) THEN "area"
    ELSE IF fails_aspect_ratio(region, params) THEN "aspect_ratio"
    ELSE IF fails_circularity(region, params) THEN "circularity"
    ELSE "blob"

\* The Blob built for a region that passed; the model carries the aspect
\* ratio in tenths, rounded down.
region_blob(region, f, kind) ==
    LET c == circularity(region)
    IN  [ frame_idx    |-> f,
          bbox         |-> << region.x, region.y, region.w, region.h >>,
          centroid     |-> region.centroid,
          area         |-> region.area,
          circularity  |-> c,
          aspect_ratio |-> aspect_ratio(region),
          confidence   |-> c,
          blob_type    |-> kind,
          coupled_with |-> None ]

\* The loop over the labels, from the i-th region on.
RECURSIVE extract_blobs_from_binary(_, _, _, _, _)
extract_blobs_from_binary(regions, i, f, params, kind) ==
    IF i > Len(regions) THEN << >>
    ELSE (IF region_outcome(regions[i], params) = "blob"
          THEN << region_blob(regions[i], f, kind) >>
          ELSE << >>)
         \o extract_blobs_from_binary(regions, i + 1, f, params, kind)

InitExtract ==
    /\ pc = "extract_blobs_from_binary"
    /\ idle
    /\ \E s \in IndexLists(Len(Regions)), p \in DetectionParamSets :
         call = [ regions  |-> [ i \in DOMAIN s |-> Regions[s[i]] ],
                  params   |-> p,
                  outcomes |-> << >>,
                  blobs    |-> << >> ]

\* extract_blobs_from_binary(binary, frame_idx, params, 'dark') returns.
ExtractBlobs ==
    /\ pc = "extract_blobs_from_binary"
    /\ pc' = "extracted"
    /\ call' = [ call EXCEPT
                   !.outcomes = [ i \in DOMAIN call.regions |->
                                    region_outcome(call.regions[i], call.params) ],
                   !.blobs = extract_blobs_from_binary(call.regions, 1, 0,
                                                       call.params, "dark") ]
    /\ UNCHANGED frame_state

NextExtract == ExtractBlobs

SpecExtract == InitExtract /\ [][NextExtract]_vars

\* ----------------------------------------------------- background estimation
\* subsample_rate of background_subtraction.py, sample_every_nth_frame of v5.
SubsampleRates == { 1, 3 }

\* max_frames_in_memory of compute_background: the default and a limit the
\* model's sources can reach.
MemoryLimits == { 2, 150 }

\* duration_seconds and max_frames of load_frames and
\* compute_average_background_from_video: not given, 0 and a value.
DurationSeconds == { None, << 0 >>, << 1 >> }

MaxFramesArgs == { None, << 0 >>, << 1 >> }

BackgroundEntries ==
    { "compute_average_background", "compute_average_background_from_video",
      "compute_background" }

\* A background estimation is called on a source that opens or not, reports
\* fps and total_frames frames and yields "available" frames before a read
\* fails.  compute_average_background stands for load_frames followed by
\* compute_average_background on the frames it returns.
InitBackground ==
    /\ pc = "background_open"
    /\ idle
    /\ \E e \in BackgroundEntries, o \in BOOLEAN, f \in FpsValues,
          t \in 0..MaxFrames, a \in 0..MaxFrames,
          d \in DurationSeconds, x \in MaxFramesArgs,
          r \in SubsampleRates, m \in MemoryLimits :
         /\ e = "compute_background" => (d = None /\ x = None)
         /\ e # "compute_background" => m = 150
         /\ ~o => (t = 0 /\ a = 0)
         /\ call = [ entry                 |-> e,
                     opened                |-> o,
                     fps                   |-> f,
                     total_frames          |-> t,
                     available             |-> a,
                     duration_seconds      |-> d,
                     max_frames            |-> x,
                     subsample_rate        |-> r,
                     max_frames_in_memory  |-> m,
                     frames_to_load        |-> 0,
                     effective_sample_rate |-> r,
                     frame_count           |-> 0,
                     sampled               |-> 0,
                     stopped               |-> FALSE,
                     raised                |-> None,
                     background            |-> None ]

\* if not cap.isOpened(): raise ValueError("Could not open video ...")
BackgroundOpenFails ==
    /\ pc = "background_open"
    /\ ~call.opened
    /\ pc' = "background_done"
    /\ call' = [ call EXCEPT !.raised = << "ValueError" >> ]
    /\ UNCHANGED frame_state

\* "if v:" of an optional number: neither None nor 0.
given(v) == v # None /\ v[1] # 0

\* frames_to_load of load_frames and compute_average_background_from_video:
\* min(int(fps * duration_seconds), total_frames) when a duration is given,
\* total_frames otherwise, and at most max_frames when that is given.
frames_to_load(c) ==
    LET by_duration == IF given(c.duration_seconds)
                       THEN Min2(c.fps * c.duration_seconds[1], c.total_frames)
                       ELSE c.total_frames
    IN  IF given(c.max_frames) THEN Min2(by_duration, c.max_frames[1]) ELSE by_duration

\* effective_sample_rate of compute_background: total_frames //
\* max_frames_in_memory when sampling every sample_every_nth_frame would keep
\* more than max_frames_in_memory frames.
effective_sample_rate(c) ==
    IF c.total_frames \div c.subsample_rate > c.max_frames_in_memory
    THEN c.total_frames \div c.max_frames_in_memory
    ELSE c.subsample_rate

\* The source opened: the set-up before the sampling loop.
BackgroundSetup ==
    /\ pc = "background_open"
    /\ call.opened
    /\ call.entry = "compute_average_background" => call.fps > 0
    /\ pc' = "background_loop"
    /\ call' = IF call.entry = "compute_background"
               THEN [ call EXCEPT !.effective_sample_rate = effective_sample_rate(call) ]
               ELSE [ call EXCEPT !.frames_to_load = frames_to_load(call) ]
    /\ UNCHANGED frame_state

\* load_frames prints total_frames/fps before its loop: ZeroDivisionError
\* for a source that reports fps 0.
LoadFramesRaises ==
    /\ pc = "background_open"
    /\ call.opened
    /\ call.entry = "compute_average_background"
    /\ call.fps = 0
    /\ pc' = "background_done"
    /\ call' = [ call EXCEPT !.frames_to_load = frames_to_load(call),
                             !.raised = << "ZeroDivisionError" >> ]
    /\ UNCHANGED frame_state

\* The sampling loop may run its body once more: the limit is not reached
\* and cap.read() yields a frame.
loop_continues(c) ==
    /\ ~c.stopped
    /\ c.entry # "compute_background" => c.frame_count < c.frames_to_load
    /\ c.frame_count < c.available

\* One pass of the sampling loop after a successful read: every n-th frame
\* is kept.  compute_background leaves the loop, without counting the frame,
\* once max_frames_in_memory frames are kept.
ReadBackgroundFrame ==
    /\ pc = "background_loop"
    /\ loop_continues(call)
    /\ LET keep == (call.frame_count % call.effective_sample_rate = 0)
           n == call.sampled + (IF keep THEN 1 ELSE 0)
           full == /\ call.entry = "compute_background"
                   /\ keep
                   /\ n >= call.max_frames_in_memory
       IN  call' = [ call EXCEPT !.sampled = n,
                                 !.stopped = full,
                                 !.frame_count = IF full THEN @ ELSE @ + 1 ]
    /\ UNCHANGED << pc, frame_state >>

\* compute_average_background (on the list load_frames returns) and
\* compute_average_background_from_video: ValueError on zero frames,
\* the running average otherwise.
average_result(c) ==
    IF c.sampled = 0
    THEN [ c EXCEPT !.raised = << "ValueError" >> ]
    ELSE [ c EXCEPT !.background = << "average", c.sampled >> ]

\* compute_background of v5: np.median(frames_list, axis=0) with no test of
\* the list; the median of an empty list is NaN (numpy warns, it does not
\* raise), which is returned as the background.
median_result(c) ==
    IF c.sampled = 0
    THEN [ c EXCEPT !.background = << "nan", 0 >> ]
    ELSE [ c EXCEPT !.background = << "median", c.sampled >> ]

\* compute_average_background(frames) after load_frames left its loop.
ComputeAverageBackground ==
    /\ pc = "background_loop"
    /\ call.entry = "compute_average_background"
    /\ ~loop_continues(call)
    /\ pc' = "background_done"
    /\ call' = average_result(call)
    /\ UNCHANGED frame_state

\* The end of compute_average_background_from_video.
AverageBackgroundFromVideo ==
    /\ pc = "background_loop"
    /\ call.entry = "compute_average_background_from_video"
    /\ ~loop_continues(call)
    /\ pc' = "background_done"
    /\ call' = average_result(call)
    /\ UNCHANGED frame_state

\* The end of compute_background.
ComputeBackground ==
    /\ pc = "background_loop"
    /\ call.entry = "compute_background"
    /\ ~loop_continues(call)
    /\ pc' = "background_done"
    /\ call' = median_result(call)
    /\ UNCHANGED frame_state

NextBackground ==
    \/ BackgroundOpenFails
    \/ BackgroundSetup
    \/ LoadFramesRaises
    \/ ReadBackgroundFrame
    \/ ComputeAverageBackground
    \/ AverageBackgroundFromVideo
    \/ ComputeBackground

SpecBackground == InitBackground /\ [][NextBackground]_vars

\* ---------------------------------------------------------------- Heartbeat
\* heartbeat.py: one Heartbeat object, the thread that calls start() and
\* stop() on it, and the loop threads start() creates.  pc is the position
\* of the calling thread; call holds the fields of the object, the loop
\* threads, the requests sent and the threads whose stop() has returned.
MaxThreads == 2
MaxPosts == 3
MaxFailures == 1

\* interval_seconds of the constructor.
Intervals == { 1, 2 }

\* Heartbeat.__init__; no loop thread exists yet.
InitHeartbeat ==
    /\ pc = "caller"
    /\ idle
    /\ \E n \in Intervals :
         call = [ interval             |-> n,
                  running              |-> FALSE,
                  thread               |-> None,
                  last_success_time    |-> None,
                  consecutive_failures |-> 0,
                  threads              |-> << >>,
                  posts                |-> << >>,
                  stop_returned        |-> { } ]

\* Thread.is_alive() of the t-th loop thread.
is_alive(c, t) == c.threads[t].state # "dead"

\* The calling thread enters start().
CallStart ==
    /\ pc = "caller"
    /\ call.running \/ Len(call.threads) < MaxThreads
    /\ pc' = "start"
    /\ UNCHANGED << call, frame_state >>

\* if self.running: print(...); return
start_AlreadyRunning ==
    /\ pc = "start"
    /\ call.running
    /\ pc' = "caller"
    /\ UNCHANGED << call, frame_state >>

\* self.running = True
start_SetRunning ==
    /\ pc = "start"
    /\ ~call.running
    /\ call' = [ call EXCEPT !.running = TRUE ]
    /\ pc' = "start_thread"
    /\ UNCHANGED frame_state

\* self.thread = threading.Thread(target=self._heartbeat_loop, ...);
\* self.thread.start(): the new thread is alive, before its first test of
\* self.running.
start_Thread ==
    /\ pc = "start_thread"
    /\ call' = [ call EXCEPT
                   !.threads = Append(@, [ state |-> "loop", sleep_remaining |-> 0 ]),
                   !.thread  = << Len(call.threads) + 1 >> ]
    /\ pc' = "caller"
    /\ UNCHANGED frame_state

\* The calling thread enters stop().
CallStop ==
    /\ pc = "caller"
    /\ pc' = "stop"
    /\ UNCHANGED << call, frame_state >>

\* if not self.running: return
stop_NotRunning ==
    /\ pc = "stop"
    /\ ~call.running
    /\ pc' = "caller"
    /\ UNCHANGED << call, frame_state >>

\* self.running = False
stop_ClearRunning ==
    /\ pc = "stop"
    /\ call.running
    /\ call' = [ call EXCEPT !.running = FALSE ]
    /\ pc' = "stop_join"
    /\ UNCHANGED frame_state

\* stop() returns with the thread finished: is_alive() was false, or
\* join(timeout=5.0) returned because the thread ended.
stop_Joined ==
    /\ pc = "stop_join"
    /\ call.thread # None
    /\ ~is_alive(call, call.thread[1])
    /\ call' = [ call EXCEPT !.stop_returned = @ \cup { call.thread[1] } ]
    /\ pc' = "caller"
    /\ UNCHANGED frame_state

\* join(timeout=5.0) gives up while the thread waits for the answer to a
\* request (requests.post with timeout=5): stop() returns, the thread lives.
stop_JoinTimeout ==
    /\ pc = "stop_join"
    /\ call.thread # None
    /\ call.threads[call.thread[1]].state = "request"
    /\ call' = [ call EXCEPT !.stop_returned = @ \cup { call.thread[1] } ]
    /\ pc' = "caller"
    /\ UNCHANGED frame_state

\* while self.running: of _heartbeat_loop, in thread t: the thread reads the
\* flag and enters the loop body, or ends.
heartbeat_loop(t) ==
    /\ call.threads[t].state = "loop"
    /\ IF call.running
       THEN call' = [ call EXCEPT !.threads[t].state = "send" ]
       ELSE call' = [ call EXCEPT !.threads[t].state = "dead" ]
    /\ UNCHANGED << pc, frame_state >>

\* requests.post(...) of _send_heartbeat goes out in thread t, which has
\* entered the loop body; self.running is not read again before it.
post_heartbeat(t) ==
    /\ call.threads[t].state = "send"
    /\ Len(call.posts) < MaxPosts
    /\ call' = [ call EXCEPT !.threads[t].state = "request",
                             !.posts = Append(@, t) ]
    /\ UNCHANGED << pc, frame_state >>

\* The request of thread t is answered with status 200: _send_heartbeat
\* resets the failure counter and stores the time.
send_heartbeat(t) ==
    /\ call.threads[t].state = "request"
    /\ call' = [ call EXCEPT !.consecutive_failures = 0,
                             !.last_success_time = << "time" >>,
                             !.threads[t].state = "sleep",
                             !.threads[t].sleep_remaining = call.interval ]
    /\ UNCHANGED << pc, frame_state >>

\* The request of thread t fails (timeout, refused, other status):
\* _handle_failure counts it.
handle_failure(t) ==
    /\ call.threads[t].state = "request"
    /\ call.consecutive_failures < MaxFailures
    /\ call' = [ call EXCEPT !.consecutive_failures = @ + 1,
                             !.threads[t].state = "sleep",
                             !.threads[t].sleep_remaining = call.interval ]
    /\ UNCHANGED << pc, frame_state >>

\* while sleep_remaining > 0 and self.running: thread t reads the flag and
\* enters the body of the inner loop, or leaves for the test of the outer
\* loop.
sleep_loop(t) ==
    /\ call.threads[t].state = "sleep"
    /\ IF call.threads[t].sleep_remaining > 0 /\ call.running
       THEN call' = [ call EXCEPT !.threads[t].state = "sleeping" ]
       ELSE call' = [ call EXCEPT !.threads[t].state = "loop" ]
    /\ UNCHANGED << pc, frame_state >>

\* time.sleep(min(1.0, sleep_remaining)); sleep_remaining -= sleep_time, in
\* thread t, which has entered the body of the inner loop.
sleep_step(t) ==
    /\ call.threads[t].state = "sleeping"
    /\ call' = [ call EXCEPT !.threads[t].sleep_remaining = @ - 1,
                             !.threads[t].state = "sleep" ]
    /\ UNCHANGED << pc, frame_state >>

NextHeartbeat ==
    \/ CallStart
    \/ start_AlreadyRunning
    \/ start_SetRunning
    \/ start_Thread
    \/ CallStop
    \/ stop_NotRunning
    \/ stop_ClearRunning
    \/ stop_Joined
    \/ stop_JoinTimeout
    \/ \E t \in DOMAIN call.threads : heartbeat_loop(t)
    \/ \E t \in DOMAIN call.threads : post_heartbeat(t)
    \/ \E t \in DOMAIN call.threads : send_heartbeat(t)
    \/ \E t \in DOMAIN call.threads : handle_failure(t)
    \/ \E t \in DOMAIN call.threads : sleep_loop(t)
    \/ \E t \in DOMAIN call.threads : sleep_step(t)

SpecHeartbeat == InitHeartbeat /\ [][NextHeartbeat]_vars

\* ================================================================= claims
\* A step that runs the body of the frame loop, to its end or to the
\* exception of a source without a frame rate.
ProcessStep == frame_idx' = frame_idx + 1 \/ (pc = "loop" /\ pc' = "error")

IdsOf(tr) == { tr[i].track_id : i \in DOMAIN tr }

TrackOf(tr, id) == tr[CHOOSE i \in DOMAIN tr : tr[i].track_id = id]

MatchedIdx(acc) == { acc[j][2] : j \in DOMAIN acc }

LastOf(s) == s[Len(s)]

RestPeriods(fs) == Cardinality({ i \in 2..Len(fs) : fs[i] - fs[i - 1] > 1 })

AllTracks == { active_tracks[i] : i \in DOMAIN active_tracks }
                 \cup { completed_tracks[i] : i \in DOMAIN completed_tracks }

\* Raw distance of two points at most r pixels.
WithinPx(p, q, r) == Dist2(p, q) <= (Scale * r) * (Scale * r)

\* The adjusted distance as the claims state it, as the square of twice the
\* distance in 1/Scale px: halved for a Resting track and a blob within
\* rest_zone_radius of its last known position, raw otherwise.
ClaimHalved(blob, track) ==
    /\ track.is_resting
    /\ track.last_known_position # None
    /\ WithinPx(blob.centroid, track.last_known_position, rest_zone_radius)

ClaimKey(blob, track) ==
    IF ClaimHalved(blob, track)
    THEN Dist2(blob.centroid, LastOf(track.centroids))
    ELSE 4 * Dist2(blob.centroid, LastOf(track.centroids))

ClaimWithin(blob, track) ==
    ClaimKey(blob, track) <= (2 * Scale * max_distance) * (2 * Scale * max_distance)

\* C1: when process_video returns, every track id handed out appears exactly
\* once in the returned track list, with is_valid as validate_track computes
\* it; so the number of returned tracks is the number of ids handed out.
C1_EveryTrackReturned ==
    pc = "done" =>
        /\ Len(completed_tracks) = next_track_id - 1
        /\ \A id \in 1..(next_track_id - 1) :
             Cardinality({ i \in DOMAIN completed_tracks :
                             completed_tracks[i].track_id = id }) = 1
        /\ \A i \in DOMAIN completed_tracks :
             completed_tracks[i].is_valid = validate_track(completed_tracks[i], ValidationDefaults)

\* C2: a track (created or matched earlier, no rest period so far) that went
\* m >= 1 frames without a match and is then the only track offered the only
\* blob of a frame, the blob being within max_distance after halving the
\* distance of a blob within rest_zone_radius, receives that detection, keeps
\* its id and shows exactly one rest period; when the old track was
\* terminated, the blob opens a new track with a new id.
C2_RestThenResume ==
    [][ (ProcessStep /\ Len(blobs') = 1) =>
          /\ ( /\ Len(active_tracks) = 1
               /\ active_tracks[1].frames_since_detection >= 1
               /\ RestPeriods(active_tracks[1].frames) = 0
               /\ LET d2 == Dist2(blobs'[1].centroid, LastOf(active_tracks[1].centroids))
                  IN  IF WithinPx(blobs'[1].centroid,
                                  LastOf(active_tracks[1].centroids), rest_zone_radius)
                      THEN d2 <= (2 * Scale * max_distance) * (2 * Scale * max_distance)
                      ELSE WithinPx(blobs'[1].centroid,
                                    LastOf(active_tracks[1].centroids), max_distance) )
             => /\ next_track_id' = next_track_id
                /\ active_tracks[1].track_id \in IdsOf(active_tracks')
                /\ LET u == TrackOf(active_tracks', active_tracks[1].track_id)
                   IN  /\ u.frames = Append(active_tracks[1].frames, frame_idx)
                       /\ RestPeriods(u.frames) = 1
          /\ Len(active_tracks) = 0
             => /\ next_track_id' = next_track_id + 1
                /\ Len(active_tracks') = 1
                /\ active_tracks'[1].track_id = next_track_id
                /\ active_tracks'[1].frames = << frame_idx >> ]_vars

\* C3: after every processed frame every active track has
\* frames_since_detection <= max_skip_frames, and a track leaves the active
\* set in a frame exactly when it is unmatched in that frame and its counter
\* becomes max_skip_frames + 1, with or without blobs in the frame.
C3_SkipBudgetTermination ==
    [][ ProcessStep =>
          /\ \A j \in DOMAIN active_tracks' :
               active_tracks'[j].frames_since_detection <= max_skip_frames
          /\ \A i \in DOMAIN active_tracks :
               (active_tracks[i].track_id \notin IdsOf(active_tracks'))
                 <=> ( /\ i \notin MatchedIdx(assigned')
                       /\ active_tracks[i].frames_since_detection + 1
                              = max_skip_frames + 1 ) ]_vars

\* A track was terminated in frame 2 (its counter reached 2 with a budget of
\* 1) while a blob of that frame matched another track.
C3_Witness ==
    /\ pc = "loop"
    /\ max_skip_frames = 1
    /\ frame_idx = 3
    /\ Len(assigned) >= 1
    /\ \E id \in 1..(next_track_id - 1) : id \notin IdsOf(active_tracks)

\* C4: every track that receives no match in a frame and whose incremented
\* counter is within max_skip_frames is afterwards active, resting, and has
\* the rest ROI (x - r, y - r, 2r, 2r) around its last detected position.
C4_UnmatchedTracksRest ==
    [][ ProcessStep =>
          \A i \in DOMAIN active_tracks :
            ( /\ i \notin MatchedIdx(assigned')
              /\ active_tracks[i].frames_since_detection + 1 <= max_skip_frames )
            => /\ active_tracks[i].track_id \in IdsOf(active_tracks')
               /\ LET u == TrackOf(active_tracks', active_tracks[i].track_id)
                      c == LastOf(active_tracks[i].centroids)
                  IN  /\ u.is_resting
                      /\ u.rest_roi = << IntTrunc(c[1] - Scale * rest_zone_radius),
                                         IntTrunc(c[2] - Scale * rest_zone_radius),
                                         2 * rest_zone_radius,
                                         2 * rest_zone_radius >> ]_vars

\* C5: a resting track always has frames_since_detection > 0 and a last known
\* position, and right after a frame that matched it a track is not resting,
\* has no rest ROI and has frames_since_detection 0.
C5_RestingState ==
    /\ [](\A i \in DOMAIN active_tracks :
            active_tracks[i].is_resting =>
               /\ active_tracks[i].frames_since_detection > 0
               /\ active_tracks[i].last_known_position # None)
    /\ [][ ProcessStep =>
             \A j \in DOMAIN assigned' :
               /\ active_tracks[assigned'[j][2]].track_id \in IdsOf(active_tracks')
               /\ LET u == TrackOf(active_tracks',
                                   active_tracks[assigned'[j][2]].track_id)
                  IN  /\ ~u.is_resting
                      /\ u.rest_roi = None
                      /\ u.frames_since_detection = 0 ]_vars

\* A track that was matched, then rested, has just been matched again.
C5_Witness ==
    /\ pc = "loop"
    /\ \E i \in DOMAIN active_tracks :
         /\ Len(active_tracks[i].frames) >= 3
         /\ active_tracks[i].frames[3] - active_tracks[i].frames[2] > 1
         /\ active_tracks[i].frames[3] = frame_idx - 1
         /\ ~active_tracks[i].is_resting

\* C6: in every processed frame a matched track's frames_since_detection
\* becomes 0 and an unmatched track's becomes its previous value + 1; no
\* other step changes the counter of an active track.
C6_CounterSteps ==
    [][ /\ ProcessStep =>
             \A i \in DOMAIN active_tracks :
               active_tracks[i].track_id \in IdsOf(active_tracks') =>
                  TrackOf(active_tracks', active_tracks[i].track_id).frames_since_detection
                    = IF i \in MatchedIdx(assigned')
                      THEN 0
                      ELSE active_tracks[i].frames_since_detection + 1
        /\ ~ProcessStep =>
             /\ Len(active_tracks') = Len(active_tracks)
             /\ \A i \in DOMAIN active_tracks :
                  active_tracks'[i].frames_since_detection
                    = active_tracks[i].frames_since_detection ]_vars

\* A track that rested and resumed has counted a frame without any blob.
C6_Witness ==
    /\ pc = "loop"
    /\ Len(blobs) = 0
    /\ \E i \in DOMAIN active_tracks :
         /\ active_tracks[i].frames_since_detection = 1
         /\ RestPeriods(active_tracks[i].frames) = 1

\* C7: in every matching round each blob is assigned to at most one track,
\* each track receives at most one blob, and every assigned pair has
\* rest-zone adjusted distance <= max_distance.
C7_OneToOneWithinRange ==
    [][ ProcessStep =>
          /\ \A j, k \in DOMAIN assigned' :
               j # k => /\ assigned'[j][1] # assigned'[k][1]
                        /\ assigned'[j][2] # assigned'[k][2]
          /\ \A j \in DOMAIN assigned' :
               /\ assigned'[j][1] \in DOMAIN blobs'
               /\ assigned'[j][2] \in DOMAIN active_tracks
               /\ ClaimWithin(blobs'[assigned'[j][1]], active_tracks[assigned'[j][2]])
          /\ \A i \in DOMAIN active_tracks :
               active_tracks[i].track_id \in IdsOf(active_tracks') =>
                  Len(TrackOf(active_tracks', active_tracks[i].track_id).frames)
                    <= Len(active_tracks[i].frames) + 1 ]_vars

\* Two blobs of one frame competed for one track: one was assigned, the other
\* one, also within max_distance of the track's previous position, was not.
C7_Witness ==
    /\ pc = "loop"
    /\ Len(blobs) = 2
    /\ Len(assigned) = 1
    /\ Len(unmatched_blobs) = 1
    /\ \E i \in DOMAIN active_tracks :
         /\ Len(active_tracks[i].centroids) >= 2
         /\ LastOf(active_tracks[i].frames) = frame_idx - 1
         /\ WithinPx(unmatched_blobs[1].centroid,
                     active_tracks[i].centroids[Len(active_tracks[i].centroids) - 1],
                     max_distance)

\* C8: the distance that decides candidacy and greedy order is half the
\* Euclidean distance for a Resting track and a blob within rest_zone_radius
\* of its last known position, and the raw distance otherwise: the accepted
\* pairs are candidates under that distance, are accepted in ascending order
\* of it, and every candidate not accepted lost an endpoint to an accepted
\* pair that is no farther.
C8_DistanceUsed ==
    [][ (ProcessStep /\ Len(active_tracks) > 0) =>
          LET key(p) == ClaimKey(blobs'[p[1]], active_tracks[p[2]])
              cand == { p \in (DOMAIN blobs') \X (DOMAIN active_tracks) :
                          ClaimWithin(blobs'[p[1]], active_tracks[p[2]]) }
              acc == { << assigned'[j][1], assigned'[j][2] >> : j \in DOMAIN assigned' }
          IN  /\ acc \subseteq cand
              /\ \A j, k \in DOMAIN assigned' :
                   j < k => key(assigned'[j]) <= key(assigned'[k])
              /\ \A p \in cand \ acc :
                   \E q \in acc : /\ (q[1] = p[1] \/ q[2] = p[2])
                                  /\ key(q) <= key(p) ]_vars

\* A resting track has just taken a blob farther than max_distance (raw) from
\* its last position, which only the halved distance admits.
C8_Witness ==
    /\ pc = "loop"
    /\ \E i \in DOMAIN active_tracks :
         LET cs == active_tracks[i].centroids
         IN  /\ Len(cs) >= 3
             /\ LastOf(active_tracks[i].frames) = frame_idx - 1
             /\ ~WithinPx(cs[Len(cs)], cs[Len(cs) - 1], max_distance)
             /\ WithinPx(cs[Len(cs)], cs[Len(cs) - 1], rest_zone_radius)

\* C9: for every track, at creation and after every frame, frames, bboxes,
\* centroids, areas and confidences have the same length.
C9_ParallelSequences ==
    \A t \in AllTracks :
        /\ Len(t.bboxes) = Len(t.frames)
        /\ Len(t.centroids) = Len(t.frames)
        /\ Len(t.areas) = Len(t.frames)
        /\ Len(t.confidences) = Len(t.frames)

\* A track with three detections.
C9_Witness ==
    \E i \in DOMAIN active_tracks : Len(active_tracks[i].frames) >= 3

\* C10: the frames sequence of every track is strictly increasing.
C10_FramesIncreasing ==
    \A t \in AllTracks :
        \A i \in 2..Len(t.frames) : t.frames[i] > t.frames[i - 1]

\* A track was matched in a frame whose two blobs were both within
\* max_distance of its previous position.
C10_Witness ==
    /\ pc = "loop"
    /\ Len(blobs) = 2
    /\ \E i \in DOMAIN active_tracks :
         LET cs == active_tracks[i].centroids
         IN  /\ Len(cs) >= 2
             /\ LastOf(active_tracks[i].frames) = frame_idx - 1
             /\ \A b \in DOMAIN blobs :
                  WithinPx(blobs[b].centroid, cs[Len(cs) - 1], max_distance)

\* C11: validate_track returns false for every track that has fewer than two
\* detections, whatever the validation thresholds are (min_track_length <= 1,
\* min_displacement <= 0 and min_speed <= 0 included).
C11_ShortTrackInvalid ==
    (pc = "validate_track" /\ call.returned /\ Len(call.track.frames) < 2)
        => ~call.v4

\* The sum of the distances between the consecutive ones of the first n
\* centroids, added up in their order in the floats of the program.
RECURSIVE ClaimPath(_, _)
ClaimPath(cs, n) ==
    IF n < 2 THEN dbl_zero
    ELSE dbl_add(ClaimPath(cs, n - 1),
                 dbl_scale(dbl_sqrt(Dist2(cs[n - 1], cs[n])), -1))

\* length >= min_track_length, displacement >= min_displacement and
\* min_speed <= displacement / (detections - 1) <= max_speed.
ClaimValid(track, params) ==
    LET n == Len(track.frames)
        d == ClaimPath(track.centroids, n)
        v == dbl_div_ints(d, n - 1, 1)
    IN  /\ n >= params.min_track_length
        /\ dbl_cmp(d, dbl_of_ratio(params.min_displacement, 10)) >= 0
        /\ dbl_cmp(dbl_of_ratio(params.min_speed, 10), v) <= 0
        /\ dbl_cmp(v, dbl_of_ratio(params.max_speed, 10)) <= 0

\* C12: for a track with at least two detections validate_track returns true
\* iff length >= min_track_length, displacement >= min_displacement and
\* min_speed <= avg_speed <= max_speed, displacement being the sum of the
\* distances between consecutive centroids and avg_speed being
\* displacement / (detections - 1); the validators of v4 and v5 return the
\* same verdict on every track and threshold set.
C12_ValidatorVerdict ==
    (pc = "validate_track" /\ call.returned) =>
        /\ call.v4 = call.v5
        /\ Len(call.track.frames) >= 2
               => (call.v4 <=> ClaimValid(call.track, call.params))

\* A valid track of three detections whose steps are no whole numbers of
\* pixels and whose displacement is the float min_displacement is: the sum
\* of the two roots is below 5379 px, the float the program adds up is
\* 5379.0.
C12_Witness ==
    /\ pc = "validate_track"
    /\ call.returned
    /\ Len(call.track.frames) = 3
    /\ call.v4
    /\ \A i \in 2..3 :
         LET d == Dist2(call.track.centroids[i], call.track.centroids[i - 1])
         IN  ISqrt(d) * ISqrt(d) # d
    /\ dbl_cmp(displacement(call.track), tenths(call.params.min_displacement)) = 0

\* The track's recorded frames are k consecutive frame indices: it was
\* matched in every frame from its creation frame on.
MatchedEveryFrame(t) ==
    /\ Len(t.frames) >= 1
    /\ \A i \in DOMAIN t.frames : t.frames[i] = t.frames[1] + i - 1

\* C13: a track matched in every one of k >= 1 consecutive frames (its
\* creation frame counted) has length k, total_duration k and 0 rest
\* periods; for every track total_duration is last frame - first frame + 1
\* and rest_periods is the number of consecutive recorded frame indices
\* that differ by more than 1.
C13_DurationAndRest ==
    \A t \in AllTracks :
        /\ MatchedEveryFrame(t) =>
               /\ total_duration(t) = length(t)
               /\ rest_periods(t) = 0
        /\ total_duration(t) = LastOf(t.frames) - t.frames[1] + 1
        /\ rest_periods(t) = RestPeriods(t.frames)

\* One track was matched in both frames since its creation, another was
\* created with it, missed a frame and was matched again.
C13_Witness ==
    /\ pc = "loop"
    /\ \E i, j \in DOMAIN active_tracks :
         /\ MatchedEveryFrame(active_tracks[i])
         /\ length(active_tracks[i]) = 2
         /\ LastOf(active_tracks[i].frames) = frame_idx - 1
         /\ length(active_tracks[j]) = 2
         /\ rest_periods(active_tracks[j]) = 1
         /\ total_duration(active_tracks[j]) = 3

\* Track t is in the sequence tr, validated.
ReturnedValidated(t, tr) ==
    \E i \in DOMAIN tr :
        tr[i] = [ t EXCEPT !.is_valid = validate_track(t, ValidationDefaults) ]

\* C14: when reading a frame fails at any frame n, after the source was
\* opened, the frame loop stops, no exception is raised and every track held
\* after frame n - 1 is validated and returned; an exception is raised only
\* when the source cannot be opened, and then no frame was processed.
C14_ReadFailure ==
    /\ [](pc = "error" =>
            /\ frame_idx = 0
            /\ total_detections = 0
            /\ active_tracks = << >>
            /\ completed_tracks = << >>)
    /\ [][pc' = "error" => pc = "start"]_vars
    /\ [][(pc = "loop" /\ pc' # "loop") =>
            /\ pc' = "done"
            /\ frame_idx' = frame_idx
            /\ Len(completed_tracks') = Len(active_tracks) + Len(completed_tracks)
            /\ \A i \in DOMAIN active_tracks :
                 ReturnedValidated(active_tracks[i], completed_tracks')
            /\ \A i \in DOMAIN completed_tracks :
                 \E j \in DOMAIN completed_tracks' :
                     completed_tracks'[j] = completed_tracks[i]]_vars

\* find_coupled_blobs has returned in the run of detect_blobs.
Coupled == pc \in { "detect_blobs", "returned" }

SetOf(s) == { s[i] : i \in DOMAIN s }

OrderingsOf(n) == { p \in [1..n -> 1..n] : \A i, j \in 1..n : i # j => p[i] # p[j] }

Permuted(s, p) == [ i \in DOMAIN s |-> s[p[i]] ]

\* The dark blob a coupled blob was made from: the one at its centroid.
DarkOf(c, dark_blobs) ==
    CHOOSE d \in SetOf(dark_blobs) : d.centroid = c.centroid

\* The bright blob a coupled blob names, by its 0-based index.
BrightOf(c, bright_blobs) == bright_blobs[c.coupled_with[1] + 1]

\* The coupled (dark blob, bright blob) pairs of a result.
CoupledPairsOf(coupled_blobs, dark_blobs, bright_blobs) ==
    { << DarkOf(coupled_blobs[k], dark_blobs), BrightOf(coupled_blobs[k], bright_blobs) >> :
        k \in DOMAIN coupled_blobs }

\* No two dark-bright centroid distances are equal.
NoEqualDistances(dark_blobs, bright_blobs) ==
    \A i, k \in DOMAIN dark_blobs : \A j, l \in DOMAIN bright_blobs :
        << i, j >> # << k, l >> =>
            Dist2(dark_blobs[i].centroid, bright_blobs[j].centroid)
                # Dist2(dark_blobs[k].centroid, bright_blobs[l].centroid)

\* C15: find_coupled_blobs does not depend on the order of its lists: when no
\* two dark-bright centroid distances are equal, every permutation of the
\* dark list and of the bright list gives the same set of coupled (dark
\* blob, bright blob) pairs and the same sets of uncoupled dark and bright
\* blobs.
C15_OrderIndependent ==
    (Coupled /\ NoEqualDistances(call.dark_blobs, call.bright_blobs)) =>
        \A p \in OrderingsOf(Len(call.dark_blobs)),
           q \in OrderingsOf(Len(call.bright_blobs)) :
            LET dark == Permuted(call.dark_blobs, p)
                bright == Permuted(call.bright_blobs, q)
                r == find_coupled_blobs(dark, bright)
            IN  /\ CoupledPairsOf(r.coupled_blobs, dark, bright)
                     = CoupledPairsOf(call.coupled_blobs, call.dark_blobs,
                                      call.bright_blobs)
                /\ SetOf(r.uncoupled_dark) = SetOf(call.uncoupled_dark)
                /\ SetOf(r.uncoupled_bright) = SetOf(call.uncoupled_bright)

\* Two dark and two bright blobs, all four pairs in range at different
\* distances, both dark blobs coupled.
C15_Witness ==
    /\ Coupled
    /\ Len(call.dark_blobs) = 2
    /\ Len(call.bright_blobs) = 2
    /\ NoEqualDistances(call.dark_blobs, call.bright_blobs)
    /\ \A i \in 1..2 : \A j \in 1..2 :
         within_coupling_distance(call.dark_blobs[i], call.bright_blobs[j])
    /\ Len(call.coupled_blobs) = 2

\* The in-range (dark index, bright index) pairs of the call.
InRangePairs ==
    { p \in (DOMAIN call.dark_blobs) \X (DOMAIN call.bright_blobs) :
        within_coupling_distance(call.dark_blobs[p[1]], call.bright_blobs[p[2]]) }

PairDist2(p) ==
    Dist2(call.dark_blobs[p[1]].centroid, call.bright_blobs[p[2]].centroid)

\* Dark blob i and bright blob j are a coupled pair of the result.
IsCoupledPair(i, j) ==
    \E k \in DOMAIN call.coupled_blobs :
        /\ call.coupled_blobs[k].centroid = call.dark_blobs[i].centroid
        /\ call.coupled_blobs[k].coupled_with = << j - 1 >>

\* C16: in every result of find_coupled_blobs each dark and each bright blob
\* is in at most one coupled pair, every coupled pair is at most
\* coupling_distance apart, the closest in-range pair is coupled, every dark
\* blob is in exactly one of coupled and uncoupled_dark, and every bright
\* blob is the partner of exactly one coupled blob or else in
\* uncoupled_bright; an empty input list included.
C16_CouplingPartition ==
    Coupled =>
        /\ \A i \in DOMAIN call.dark_blobs :
             /\ Cardinality({ j \in DOMAIN call.bright_blobs : IsCoupledPair(i, j) }) <= 1
             /\ Cardinality({ k \in DOMAIN call.coupled_blobs :
                    call.coupled_blobs[k].centroid = call.dark_blobs[i].centroid })
                + Cardinality({ k \in DOMAIN call.uncoupled_dark :
                    call.uncoupled_dark[k] = call.dark_blobs[i] }) = 1
        /\ \A j \in DOMAIN call.bright_blobs :
             Cardinality({ k \in DOMAIN call.coupled_blobs :
                    call.coupled_blobs[k].coupled_with = << j - 1 >> })
                + Cardinality({ k \in DOMAIN call.uncoupled_bright :
                    call.uncoupled_bright[k] = call.bright_blobs[j] }) = 1
        /\ \A k \in DOMAIN call.coupled_blobs :
             \E p \in InRangePairs :
                 /\ IsCoupledPair(p[1], p[2])
                 /\ call.coupled_blobs[k].centroid = call.dark_blobs[p[1]].centroid
        /\ InRangePairs # { } =>
             \E p \in InRangePairs :
                 /\ IsCoupledPair(p[1], p[2])
                 /\ \A q \in InRangePairs : PairDist2(p) <= PairDist2(q)
        /\ \A p \in InRangePairs :
             (\A q \in InRangePairs \ { p } : PairDist2(p) < PairDist2(q))
                 => IsCoupledPair(p[1], p[2])

\* Two dark blobs compete for one bright blob in range of both: the closer
\* one is coupled, the other is left uncoupled.
C16_Witness ==
    /\ Coupled
    /\ Len(call.dark_blobs) = 2
    /\ Len(call.bright_blobs) = 1
    /\ Cardinality(InRangePairs) = 2
    /\ Len(call.coupled_blobs) = 1
    /\ Len(call.uncoupled_dark) = 1
    /\ call.uncoupled_bright = << >>

\* C17: every coupled blob has the frame index, bbox, centroid, area,
\* circularity and aspect ratio of its dark blob, kind 'coupled', the dark
\* blob's confidence times coupling_boost as confidence, and the index of
\* its bright partner in the bright list as coupled_with; one dark and one
\* bright blob 30 px apart with coupling_distance 100 give one coupled blob
\* and no uncoupled dark or bright blob.
C17_CoupledBlobFields ==
    Coupled =>
        /\ \A k \in DOMAIN call.coupled_blobs :
             LET c == call.coupled_blobs[k]
             IN  \E i \in DOMAIN call.dark_blobs, j \in DOMAIN call.bright_blobs :
                    LET d == call.dark_blobs[i]
                    IN  /\ c.frame_idx = d.frame_idx
                        /\ c.bbox = d.bbox
                        /\ c.centroid = d.centroid
                        /\ c.area = d.area
                        /\ c.circularity = d.circularity
                        /\ c.aspect_ratio = d.aspect_ratio
                        /\ c.blob_type = "coupled"
                        /\ c.confidence = dbl_mul(d.confidence, dbl_of_ratio(coupling_boost_pct, 100))
                        /\ c.coupled_with = << j - 1 >>
                        /\ d \notin SetOf(call.uncoupled_dark)
                        /\ call.bright_blobs[j] \notin SetOf(call.uncoupled_bright)
                        /\ within_coupling_distance(d, call.bright_blobs[j])
        /\ ( /\ Len(call.dark_blobs) = 1
             /\ Len(call.bright_blobs) = 1
             /\ Dist2(call.dark_blobs[1].centroid, call.bright_blobs[1].centroid)
                    = (Scale * 30) * (Scale * 30)
             /\ coupling_distance = 100 )
           => /\ Len(call.coupled_blobs) = 1
              /\ call.uncoupled_dark = << >>
              /\ call.uncoupled_bright = << >>

\* The dark blob at (100,100) and the bright blob at (100,130) were coupled:
\* the confidence 0.7933 of the dark blob became 1.0312.
C17_Witness ==
    /\ Coupled
    /\ Len(call.dark_blobs) = 1
    /\ Len(call.bright_blobs) = 1
    /\ Dist2(call.dark_blobs[1].centroid, call.bright_blobs[1].centroid)
           = (Scale * 30) * (Scale * 30)
    /\ Len(call.coupled_blobs) = 1
    /\ call.dark_blobs[1].area = 101
    /\ dbl_gt(call.coupled_blobs[1].confidence, call.dark_blobs[1].confidence)
    /\ dbl_gt(call.coupled_blobs[1].confidence, dbl_of_int(1))

\* Dark blob i of the frame found no bright partner.
HasNoPartner(i) ==
    \A j \in DOMAIN call.bright_blobs : ~IsCoupledPair(i, j)

\* C18: when require_coupling is false, every dark blob that found no bright
\* partner is in the list detect_blobs returns for the frame, as a detection
\* of kind 'dark' with its confidence unchanged.
C18_UncoupledDarkKept ==
    (pc = "returned" /\ ~call.require_coupling) =>
        \A i \in DOMAIN call.dark_blobs :
            HasNoPartner(i) =>
                \E k \in DOMAIN call.all_blobs :
                    /\ call.all_blobs[k] = call.dark_blobs[i]
                    /\ call.all_blobs[k].blob_type = "dark"
                    /\ call.all_blobs[k].confidence = call.dark_blobs[i].circularity

\* Two dark blobs and one bright blob: one dark blob was coupled, the other
\* is returned as a dark detection.
C18_Witness ==
    /\ pc = "returned"
    /\ ~call.require_coupling
    /\ Len(call.dark_blobs) = 2
    /\ Len(call.coupled_blobs) = 1
    /\ \E i \in DOMAIN call.dark_blobs :
         /\ HasNoPartner(i)
         /\ call.dark_blobs[i] \in SetOf(call.all_blobs)

\* C19: when require_coupling is true, every blob in the list detect_blobs
\* returns for a frame has kind 'coupled'.
C19_OnlyCoupled ==
    (pc = "returned" /\ call.require_coupling) =>
        \A k \in DOMAIN call.all_blobs : call.all_blobs[k].blob_type = "coupled"

\* A blob closer than the duplicate tolerance to the standard blob s.
ClaimDuplicate(s, x) ==
    Dist2(s.centroid, x.centroid)
        < (Scale * duplicate_distance) * (Scale * duplicate_distance)

\* The dark, bright and coupled blobs detected in the frame.
ClaimAccepted ==
    SetOf(call.dark_blobs) \cup SetOf(call.bright_blobs) \cup SetOf(call.coupled_blobs)

\* C20: in the list detect_blobs returns for a frame no 'standard' blob has
\* its centroid within the duplicate tolerance (20 px) of a dark, bright or
\* coupled blob detected in that frame, and every standard blob that is not
\* such a duplicate is in the list.
C20_StandardDuplicates ==
    pc = "returned" =>
        /\ \A k \in DOMAIN call.all_blobs :
             call.all_blobs[k].blob_type = "standard" =>
                 \A x \in ClaimAccepted : ~ClaimDuplicate(call.all_blobs[k], x)
        /\ \A i \in DOMAIN call.standard_blobs :
             (\A x \in ClaimAccepted : ~ClaimDuplicate(call.standard_blobs[i], x))
                 => call.standard_blobs[i] \in SetOf(call.all_blobs)

ClaimAreaOk(region, params) ==
    params.min_area <= region.area /\ region.area <= params.max_area

ClaimAspectOk(region, params) ==
    10 * aspect_ratio_num(region) <= params.max_aspect_ratio * aspect_ratio_den(region)

\* 4 * pi * area / perimeter^2 in the floats of the program, and 0 for a
\* region without a contour or with a contour of length 0.
ClaimCircularity(region) ==
    IF region.perimeter = None \/ region.perimeter = <<0>> THEN dbl_zero
    ELSE LET p == region.perimeter[1]
         IN  dbl_div_ints(dbl_mul(dbl_scale(Pi, 2), dbl_of_int(region.area)), p, p)

ClaimCircularityOk(region, params) ==
    dbl_cmp(ClaimCircularity(region), dbl_of_ratio(params.min_circularity, 100)) >= 0

\* The regions of the call that were emitted, in order.
EmittedRegions ==
    SelectSeq(call.regions, LAMBDA r : region_outcome(r, call.params) = "blob")

\* C21: extract_blobs_from_binary emits a region as a blob iff
\* min_area <= area <= max_area, aspect_ratio <= max_aspect_ratio and
\* circularity >= min_circularity, the tests being made in the order area,
\* aspect ratio, circularity; a region whose area is below min_area or
\* above max_area yields no blob whatever its circularity and aspect ratio.
C21_FilterOrder ==
    pc = "extracted" =>
        /\ \A i \in DOMAIN call.regions :
             LET r == call.regions[i]
                 p == call.params
             IN  /\ (call.outcomes[i] = "blob") <=>
                        (ClaimAreaOk(r, p) /\ ClaimAspectOk(r, p) /\ ClaimCircularityOk(r, p))
                 /\ (call.outcomes[i] = "area") <=> ~ClaimAreaOk(r, p)
                 /\ (call.outcomes[i] = "aspect_ratio") <=>
                        (ClaimAreaOk(r, p) /\ ~ClaimAspectOk(r, p))
                 /\ (call.outcomes[i] = "circularity") <=>
                        (ClaimAreaOk(r, p) /\ ClaimAspectOk(r, p) /\ ~ClaimCircularityOk(r, p))
                 /\ ~ClaimAreaOk(r, p) =>
                        \A k \in DOMAIN call.blobs : call.blobs[k].centroid # r.centroid
        /\ Len(call.blobs) = Cardinality({ i \in DOMAIN call.regions :
                                             call.outcomes[i] = "blob" })
        /\ \A k \in DOMAIN call.blobs :
             /\ call.blobs[k].centroid = EmittedRegions[k].centroid
             /\ call.blobs[k].area = EmittedRegions[k].area

\* With min_circularity 0.71 and the other thresholds at their defaults, the
\* region of area 565 and perimeter 100 was rejected for its circularity,
\* 6e-8 below the threshold, and the 15 x 5 rectangle of area 75, aspect
\* ratio 3 and circularity 0.727 was emitted.
C21_Witness ==
    /\ pc = "extracted"
    /\ call.params.min_area = min_area
    /\ call.params.max_area = max_area
    /\ call.params.max_aspect_ratio = max_aspect_ratio_tenths
    /\ call.params.min_circularity = 71
    /\ Len(call.regions) = 2
    /\ call.regions[1].area = 565
    /\ call.outcomes[1] = "circularity"
    /\ call.regions[2].area = 75
    /\ call.outcomes[2] = "blob"
    /\ Len(call.blobs) = 1

\* C22: a region with zero contour perimeter, or with no contour, gets
\* circularity 0 without an exception and is rejected by the circularity
\* test, whatever min_circularity is configured; a region of zero width or
\* height causes no division error in the aspect ratio.
C22_DegenerateRejected ==
    pc = "extracted" =>
        \A i \in DOMAIN call.regions :
            LET r == call.regions[i]
            IN  /\ aspect_ratio_den(r) # 0
                /\ (r.perimeter = None \/ r.perimeter = <<0>>) =>
                       /\ circularity(r) = dbl_zero
                       /\ call.outcomes[i] # "blob"

\* C23: every background-estimation entry point (compute_average_background,
\* compute_average_background_from_video, compute_background of v5) reports
\* an error and produces no reference frame when zero frames were sampled,
\* before detection and tracking have processed any frame.
C23_ZeroFramesReported ==
    (pc = "background_done" /\ call.sampled = 0) =>
        /\ call.raised # None
        /\ call.background = None
        /\ frame_idx = 0
        /\ total_detections = 0

\* The blobs of the frame just processed that the matching round assigned to
\* no track, in the order of the blob list.
FreeBlobs(bl, acc) ==
    SelectSeq(bl, LAMBDA b : \A j \in DOMAIN acc : bl[acc[j][1]] # b)

\* C24: every blob left unmatched by the matching round of a frame creates
\* exactly one new track in that frame, with a single detection (length 1,
\* total_detections 1), not resting, frames_since_detection 0, and an id
\* different from the id of every track created before: ids are handed out
\* in strictly increasing order, every id in use is below next_track_id.
C24_NewTrackPerUnmatchedBlob ==
    /\ [](\A i \in DOMAIN active_tracks : active_tracks[i].track_id < next_track_id)
    /\ [][ ProcessStep =>
             LET free == FreeBlobs(blobs', assigned')
                 k == Len(free)
                 n == Len(active_tracks')
                 created == { i \in DOMAIN active_tracks' :
                                active_tracks'[i].track_id >= next_track_id }
             IN  /\ next_track_id' = next_track_id + k
                 /\ created = (n - k + 1)..n
                 /\ \A i \in 1..k :
                      LET t == active_tracks'[n - k + i]
                      IN  /\ t.track_id = next_track_id + i - 1
                          /\ t.frames = << frame_idx >>
                          /\ t.centroids = << free[i].centroid >>
                          /\ t.bboxes = << free[i].bbox >>
                          /\ length(t) = 1
                          /\ t.total_detections = 1
                          /\ ~t.is_resting
                          /\ t.frames_since_detection = 0
                 /\ \A i \in 1..(n - k) :
                      active_tracks'[i].track_id \in IdsOf(active_tracks) ]_vars

\* Two blobs of one frame each opened a track while an older track went on.
C24_Witness ==
    /\ Len(active_tracks) >= 3
    /\ \E i, j \in DOMAIN active_tracks :
         /\ i # j
         /\ active_tracks[i].track_id > 1
         /\ active_tracks[j].track_id > active_tracks[i].track_id
         /\ length(active_tracks[i]) = 1 /\ length(active_tracks[j]) = 1
         /\ active_tracks[i].frames = << frame_idx - 1 >>
         /\ active_tracks[j].frames = << frame_idx - 1 >>

\* C25: for every track at every point of processing, position_history is
\* the centroids sequence, element by element, total_detections is the number
\* of recorded detections, and coupled_detections <= total_detections.
C25_TrailAndCounts ==
    \A t \in AllTracks :
        /\ Len(t.position_history) = Len(t.centroids)
        /\ \A i \in DOMAIN t.centroids : t.position_history[i] = t.centroids[i]
        /\ t.total_detections = Len(t.frames)
        /\ t.total_detections = Len(t.centroids)
        /\ t.coupled_detections >= 0
        /\ t.coupled_detections <= t.total_detections

\* A track created from a coupled blob, matched again by a blob that is not
\* coupled and at another position.
C25_Witness ==
    \E i \in DOMAIN active_tracks :
        LET t == active_tracks[i]
        IN  /\ Len(t.position_history) >= 3
            /\ t.position_history[1] # t.position_history[2]
            /\ t.coupled_detections >= 1
            /\ t.coupled_detections < t.total_detections

\* The tracks offered to the round of the frame just processed that received
\* no blob and are still active after it, as pairs << before, after >>.
UnassignedSurvivors ==
    { << active_tracks[t], TrackOf(active_tracks', active_tracks[t].track_id) >> :
        t \in { u \in DOMAIN active_tracks :
                  /\ u \notin MatchedIdx(assigned')
                  /\ active_tracks[u].track_id \in IdsOf(active_tracks') } }

\* The fields of a track that the round writes for a track without a blob.
RestBookkeeping == { "frames_since_detection", "is_resting", "rest_roi" }

\* C26 (as stated): a greedy matching round leaves every field of every track
\* that it assigns no blob to unchanged.
C26_UnassignedUntouched ==
    [][ ProcessStep => \A p \in UnassignedSurvivors : p[2] = p[1] ]_vars

\* C26 (amended): a greedy matching round writes the detection sequences,
\* the trail, the positions and the counters of detections only for the
\* tracks it assigns a blob to; for a track that is assigned no blob it
\* writes nothing but the rest bookkeeping (frames_since_detection goes up by
\* one, is_resting and rest_roi may be set), and the blobs are not modified:
\* the blobs handed back as unmatched are blobs of the frame, unchanged.
C26_RoundWrites ==
    [][ ProcessStep =>
          /\ \A p \in UnassignedSurvivors :
               /\ \A fld \in (DOMAIN p[1]) \ RestBookkeeping : p[2][fld] = p[1][fld]
               /\ p[2].frames_since_detection = p[1].frames_since_detection + 1
          /\ unmatched_blobs' = FreeBlobs(blobs', assigned')
          /\ \A j \in DOMAIN assigned' :
               LET b == blobs'[assigned'[j][1]]
                   u == TrackOf(active_tracks', active_tracks[assigned'[j][2]].track_id)
               IN  /\ LastOf(u.centroids) = b.centroid
                   /\ LastOf(u.bboxes) = b.bbox
                   /\ LastOf(u.areas) = b.area ]_vars

\* A round assigned a blob to one track and none to another one, which had
\* two detections, stays active and is resting.
C26_Witness ==
    /\ Len(assigned) >= 1
    /\ \E i, j \in DOMAIN active_tracks :
         /\ active_tracks[i].last_seen_frame = frame_idx - 1
         /\ Len(active_tracks[i].frames) >= 2
         /\ active_tracks[j].frames_since_detection = 1
         /\ Len(active_tracks[j].frames) >= 2
         /\ active_tracks[j].is_resting

\* The blobs and the tracks of the round of the frame just processed that are
\* in no accepted pair, by index.
FreeBlobIdx == { b \in DOMAIN blobs' : \A j \in DOMAIN assigned' : assigned'[j][1] # b }

FreeTrackIdx == (DOMAIN active_tracks) \ MatchedIdx(assigned')

\* C27: greedy matching is maximal: after every matching round no unmatched
\* blob and unmatched existing track are within max_distance of each other
\* (rest-zone adjusted); so a new track is created only for a blob with no
\* free existing track in range, and a track starts or continues resting
\* only when no free blob is in range.
C27_GreedyMaximal ==
    [][ ProcessStep =>
          /\ \A b \in FreeBlobIdx : \A t \in FreeTrackIdx :
               ~ClaimWithin(blobs'[b], active_tracks[t])
          /\ \A i \in DOMAIN active_tracks' :
               active_tracks'[i].track_id >= next_track_id =>
                  \E b \in FreeBlobIdx :
                      /\ active_tracks'[i].centroids = << blobs'[b].centroid >>
                      /\ \A t \in FreeTrackIdx :
                           ~ClaimWithin(blobs'[b], active_tracks[t])
          /\ \A p \in UnassignedSurvivors :
               p[2].is_resting =>
                  \A b \in DOMAIN blobs' :
                      ClaimWithin(blobs'[b], p[1]) => b \notin FreeBlobIdx ]_vars

\* A round with a blob and a track out of each other's range: the blob has
\* opened a track and the older track, unmatched, is resting.
C27_Witness ==
    /\ Len(blobs) >= 1
    /\ Len(unmatched_blobs) >= 1
    /\ \E i, j \in DOMAIN active_tracks :
         /\ active_tracks[i].is_resting
         /\ active_tracks[i].frames_since_detection = 1
         /\ active_tracks[j].frames = << frame_idx - 1 >>
         /\ active_tracks[j].centroids = << unmatched_blobs[1].centroid >>
         /\ ~WithinPx(unmatched_blobs[1].centroid,
                      LastOf(active_tracks[i].centroids), max_distance)

\* sum(t.length for t in tr), from the i-th track on.
RECURSIVE SumLengths(_, _)
SumLengths(tr, i) ==
    IF i > Len(tr) THEN 0 ELSE Len(tr[i].frames) + SumLengths(tr, i + 1)

\* Every blob of the frame just processed (frame_idx - 1) is the last
\* detection of exactly one active track, and no other active track has a
\* detection in that frame.
BlobsRecordedOnce ==
    (pc = "loop" /\ frame_idx > 0) =>
        /\ \A b \in DOMAIN blobs :
             Cardinality({ i \in DOMAIN active_tracks :
                 /\ LastOf(active_tracks[i].frames) = frame_idx - 1
                 /\ LastOf(active_tracks[i].centroids) = blobs[b].centroid
                 /\ LastOf(active_tracks[i].bboxes) = blobs[b].bbox }) = 1
        /\ Cardinality({ i \in DOMAIN active_tracks :
                 LastOf(active_tracks[i].frames) = frame_idx - 1 }) = Len(blobs)

\* C28: blob conservation: every blob of frame n is recorded in exactly one
\* track at frame n, so the number of active tracks whose last recorded frame
\* is n is the number of blobs of frame n, and the running count of blob
\* detections is the sum of the lengths of all tracks created so far: of the
\* tracks held while the loop runs, and of the returned tracks at the end.
C28_BlobConservation ==
    /\ BlobsRecordedOnce
    /\ pc = "loop" => total_detections = SumLengths(active_tracks, 1)
    /\ pc = "done" => total_detections = SumLengths(completed_tracks, 1)

\* C29: after every processed frame n, every track of the active set has
\* frames_since_detection = n - last_seen_frame and last_seen_frame equal to
\* the last element of its frames, and rest_roi is set iff is_resting.
C29_CounterAndRestRoi ==
    (pc = "loop" /\ frame_idx > 0) =>
        \A i \in DOMAIN active_tracks :
            LET t == active_tracks[i]
            IN  /\ t.frames_since_detection = (frame_idx - 1) - t.last_seen_frame
                /\ t.last_seen_frame = LastOf(t.frames)
                /\ (t.rest_roi # None) <=> t.is_resting

\* After a frame, next to a track matched in it, a resting track with a rest
\* region whose last detection is one frame older.
C29_Witness ==
    /\ pc = "loop"
    /\ \E i, j \in DOMAIN active_tracks :
         /\ active_tracks[i].is_resting
         /\ active_tracks[i].rest_roi # None
         /\ active_tracks[i].frames_since_detection = 1
         /\ active_tracks[i].last_seen_frame = frame_idx - 2
         /\ active_tracks[j].frames_since_detection = 0
         /\ ~active_tracks[j].is_resting

\* The requests thread t has sent.
PostsOf(c, t) == Cardinality({ i \in DOMAIN c.posts : c.posts[i] = t })

\* C30: for any interleaving of start() and stop() with the loop threads, at
\* most one loop thread is alive and sending at any time: start() while
\* running creates no thread, and a thread whose stop() has returned sends no
\* further heartbeat, also when start() follows stop() at once and when the
\* join of stop() timed out.
C30_SingleLoopThread ==
    /\ [](Cardinality({ t \in DOMAIN call.threads :
                          call.threads[t].state = "request" }) <= 1)
    /\ [][ /\ (pc = "start" /\ call.running /\ pc' # "start") =>
                  /\ pc' = "caller"
                  /\ call' = call
           /\ \A t \in call.stop_returned :
                  PostsOf(call', t) = PostsOf(call, t) ]_vars

====
